---- MODULE Spec2Model ----
(***************************************************************************)
(* A model of dfxlibs: the record store (DatabaseObject), the USN journal  *)
(* timeline projection (prepare_usnjournal / carve_usnjournal), the carve  *)
(* driver (Partition.carve), the partition byte stream (PartitionWrapper)  *)
(* and the construction of partitions (Partition.__init__,                 *)
(* Image.partitions).                                                      *)
(*                                                                         *)
(* Each subsystem has its own specification (SpecUsn, SpecDb, ...); the    *)
(* actions of one subsystem leave the variables of the others unchanged.   *)
(***************************************************************************)
EXTENDS Integers, Sequences, FiniteSets, TLC

VARIABLES
    \* ---- USN journal pass (prepare_usnjournal / carve_usnjournal)
    usnMode,         \* "prepare" or "carve": which of the two passes runs
    filesCur,        \* sqlite_files_cur: NoFileDb, or the directory rows of the File store
    journal,         \* the valid records handed to the loop body so far, in order
    usnStore,        \* table usnrecordv2
    record_count,    \* record_count / count
    parent_folders,  \* parent_folders: cache of parent folder lookups
    states_old,      \* states_old: file_meta -> reason bits
    renames_old,     \* renames_old: file_meta -> (name, parent_folder, full_name)
    timeline,        \* table timeline, in insertion order
    emitted,         \* every tl.db_insert call: [rec |-> journal index, tl |-> Timeline object]
    \* ---- File store (db_insert, db_update, hash_files)
    dbTable,         \* table file, in insertion order
    dbCall,          \* the last call: [op, obj, attrs, ok, raised]
    dbOps,           \* number of calls so far
    dbUpdates,       \* number of db_update calls that changed a row
    \* ---- carve driver (Partition.carve)
    carvePc,         \* "read": at self.read(chunk_size); "scan": at the inner while;
                     \* "done": returned; "raised": left by an exception
    cvPartition,     \* self._decrypted: the byte stream of the partition
    cvArtifacts,     \* the carver: the bytes at which it finds a record
    cvStall,         \* the carver: the byte at which it yields the offset it was invoked with
    current_data,    \* current_data: the buffer, each byte named by where it comes from
    current_offset,  \* current_offset
    last_round,      \* last_round
    cvYielded,       \* every element the carver yielded to the driver, in order
    cvStarts,        \* the byte each invocation of the carver started at, in order
    cvDelivered,     \* every element the driver yielded to its caller, in order
    \* ---- partition byte stream (Partition.read / seek / tell)
    ptStream,        \* self._decrypted: the PartitionWrapper of the partition
    ptPartition,     \* the Partition: [vstype, type_id, sector_size]
    ptData,          \* the bytes the last read returned
    ptRaised,        \* the exception the last call raised, "" for none
    ptCalls,         \* number of calls so far
    \* ---- partition listing (Image.partitions, Partition.__init__)
    bdImage,         \* the Image: [vstype, entries, bde_recovery]
    bdArgs,          \* the arguments of the last call of partitions()
    bdListing,       \* [raised |-> the exception, "" for none, result |-> the list returned]
    bdCalls,         \* number of calls so far
    \* ---- volume shadow copies (Partition.get_volume_shadow_copy_filesystem[s])
    vsPartition,     \* the Partition: [type_id, number_of_stores, readable]
    vss_volume,      \* self._vss_volume: None or "open"
    vss_store_cache, \* self._vss_store_cache: store id -> [store, filesystem]
    vsObjects,       \* number of store and filesystem objects made so far
    vsEnums,         \* what each full enumeration yielded, in order
    vsLookups,       \* number of calls of get_volume_shadow_copy_filesystem
    vsRaised,        \* the exception the last call raised, "" for none
    \* ---- directory walk (prepare_files, scan_dir)
    fwFs,            \* the file system: directory meta_addr -> its directory entries
    fwPc,            \* "ready": before prepare_files; "scan": in the loop of scan_dir
    fwTable,         \* table file, in insertion order
    to_scan,         \* to_scan: stack of [dir, parents]
    count_insert,    \* count_insert
    count_skip,      \* count_skip
    fwProduced,      \* every File object handed to db_insert, with its full_name
    fwWalks,         \* per finished walk: [table, count_insert, count_skip]
    \* ---- streaming USN parse (prepare_usnjournal, the loop over read_buffer)
    upJournal,       \* the journal from the aligned start on, as 4-byte cells
    upPos,           \* the byte offset of read_buffer[read_buffer_offset] in the journal
    upPc,            \* "parse": in the loop; "done": committed; "raised": left by an exception
    upRaised,        \* the exception that left the pass, "" for none
    upStored,        \* the ids of the records that reached the valid record section
    upLog,           \* every call of from_raw: [id, rec_len, valid, pad_zero, outcome]
    \* ---- EVTX carver (evtx_carver)
    evData,          \* current_data: [len, signatures, byte40_ok, magic_ok, records]
    evOffset,        \* current_offset
    evPc,            \* "call": before the call; "done": the iterator is exhausted
    evYielded,       \* the elements the carver yielded, in order
    evRaised,        \* the exception that left the carver, "" for none
    pfStore,        \* prefetch: the rows of the PrefetchFile store of the partition
    pfExecutes,     \* prefetch: the rows of the Executes store
    pfTimeline,     \* prefetch: the rows of the Timeline store
    pfParses,       \* prefetch: the successful parses so far, [how, scca]
    tlRows,         \* timeline store: the rows of the Timeline table
    tlCalls,        \* timeline store: the db_insert calls so far, [obj, returned]
    rgHive,         \* registry: the hive parse_registry reads
    rgPc,           \* registry: "idle", "call", "live", "recover", "done" or "raised"
    rgQueue,        \* registry: the queue of the running walk_registry
    rgCells,        \* registry: the free cells with an nk record recover_keys has yet to carve
    rgEmitted,      \* registry: what parse_registry has yielded, [entry, from]
    mnArgs,         \* main: the parsed arguments, [usage_ok, meta_ok, actions]
    mnPc,           \* main: "idle", "args", "meta", "actions" or "exited"
    mnStage,        \* main: the place in the sequence of action blocks of main
    mnExit,         \* main: the exit code of the process, once exited
    mnCause,        \* main: why the process ended
    peFiles,        \* prepare_evtx: the .evtx files of the partition, in the order of the select
    peFile,         \* prepare_evtx: the place of the file being read
    peRecord,       \* prepare_evtx: the place of the next record of that file
    pePc,           \* prepare_evtx: "idle", "files", "records", "done" or "raised"
    peInserted,     \* prepare_evtx: the events inserted so far, <<file, record>>
    peCommitted,    \* prepare_evtx: the events a commit has made durable
    rpHive,         \* key path: the parent cell each nk cell of the hive names
    rpKey,          \* key path: the key whose path is rebuilt, and whether it is recovered
    rpPc,           \* key path: "idle", "walk" or "done"
    rpP,            \* key path: p, the cell the ancestor walk stands on
    parent_keys,    \* key path: the cells gathered so far
    offsets,        \* key path: the offsets seen so far
    rpPath,         \* key path: the returned path, [kind, keys]
    saReg,          \* security analysis: what the registry store holds for the derivations
    saBootKey,      \* security analysis: SYSTEM._boot_key
    saLsaKeys,      \* security analysis: SECURITY._lsa_keys
    saLsaSecrets,   \* security analysis: SECURITY._lsa_secrets
    saDomainCache,  \* security analysis: SECURITY._domain_cache
    saLog,          \* security analysis: the accesses so far, [what, raised]
    plCur,          \* parent lookup: sqlite_files_cur, the File store of the pass
    plBuffer,       \* parent lookup: parent_folders, the cache of the pass
    plRecords,      \* parent lookup: the records after retrieve_parent_folder, in order
    plQueries,      \* parent lookup: the keys File.db_select was called for, in order
    scKind,         \* carving pass: the carver, "usn", "evtx", "prefetch" or "lnk"
    scSize,         \* carving pass: bytes_size of the partition
    scSigs,         \* carving pass: the partition positions at which the signature starts
    scQuality,      \* carving pass: what the candidates are, "invalid", "unparsable" or "ok"
    scRead,         \* carving pass: the partition bytes read so far
    scStart,        \* carving pass: the partition position of current_data[0]
    scLen,          \* carving pass: len(current_data)
    scOffset,       \* carving pass: current_offset
    scLastRound,    \* carving pass: last_round
    scPc,           \* carving pass: "read", "scan" or "done"
    scLast,         \* carving pass: the last invocation, [offset, len, next, path]
    scPaths,        \* carving pass: the paths the invocations took so far
    scExamined,     \* carving pass: the signature positions that reached the candidate checks
    scFound,        \* carving pass: the signature positions of the records handed to the caller
    ujVariant,      \* journal pass: the module of prepare_usnjournal, "prepare" or "actions"
    ujJournal,      \* journal pass: the 4-byte cells of the journal file
    ujSize,         \* journal pass: journal.size
    ujPc,           \* journal pass: "halve", "fine", "align", "stream", "done" or "raised"
    ujRound,        \* journal pass: i of the 20 halvings
    ujOffset,       \* journal pass: offset of the search
    ujChunk,        \* journal pass: chunksize of the search
    ujTell,         \* journal pass: journal.tell()
    ujBufStart,     \* journal pass: the file position of read_buffer[0]
    ujBufLen,       \* journal pass: len(read_buffer)
    ujBufOff,       \* journal pass: read_buffer_offset
    ujStored,       \* journal pass: the records handed to the store
    ujLast          \* journal pass: the last round of the streaming loop, [consumed, ended]

usnVars == <<usnMode, filesCur, journal, usnStore, record_count, parent_folders,
             states_old, renames_old, timeline, emitted>>

dbVars == <<dbTable, dbCall, dbOps, dbUpdates>>

carveVars == <<carvePc, cvPartition, cvArtifacts, cvStall, current_data, current_offset,
               last_round, cvYielded, cvStarts, cvDelivered>>

partVars == <<ptStream, ptPartition, ptData, ptRaised, ptCalls>>

bdeVars == <<bdImage, bdArgs, bdListing, bdCalls>>

vssVars == <<vsPartition, vss_volume, vss_store_cache, vsObjects, vsEnums,
             vsLookups, vsRaised>>

walkVars == <<fwFs, fwPc, fwTable, to_scan, count_insert, count_skip,
              fwProduced, fwWalks>>

parseVars == <<upJournal, upPos, upPc, upRaised, upStored, upLog>>

evtxVars == <<evData, evOffset, evPc, evYielded, evRaised>>

prefetchVars == <<pfStore, pfExecutes, pfTimeline, pfParses>>

timelineVars == <<tlRows, tlCalls>>

registryVars == <<rgHive, rgPc, rgQueue, rgCells, rgEmitted>>

mainVars == <<mnArgs, mnPc, mnStage, mnExit, mnCause>>

prepEvtxVars == <<peFiles, peFile, peRecord, pePc, peInserted, peCommitted>>

regPathVars == <<rpHive, rpKey, rpPc, rpP, parent_keys, offsets, rpPath>>

secVars == <<saReg, saBootKey, saLsaKeys, saLsaSecrets, saDomainCache, saLog>>

parentVars == <<plCur, plBuffer, plRecords, plQueries>>

scanVars == <<scKind, scSize, scSigs, scQuality, scRead, scStart, scLen,
              scOffset, scLastRound, scPc, scLast, scPaths, scExamined, scFound>>

headVars == <<ujVariant, ujJournal, ujSize, ujPc, ujRound, ujOffset, ujChunk,
              ujTell, ujBufStart, ujBufLen, ujBufOff, ujStored, ujLast>>

vars == <<usnVars, dbVars, carveVars, partVars, bdeVars, vssVars, walkVars,
          parseVars, evtxVars, prefetchVars, timelineVars, registryVars,
          mainVars, prepEvtxVars, regPathVars, secVars, parentVars, scanVars,
          headVars>>

\* the variables of the other subsystems
NotUsn == <<dbVars, carveVars, partVars, bdeVars, vssVars, walkVars, parseVars,
            evtxVars, prefetchVars, timelineVars, registryVars, mainVars,
            prepEvtxVars, regPathVars, secVars, parentVars, scanVars, headVars>>
NotDb == <<usnVars, carveVars, partVars, bdeVars, vssVars, walkVars, parseVars,
           evtxVars, prefetchVars, timelineVars, registryVars, mainVars,
           prepEvtxVars, regPathVars, secVars, parentVars, scanVars, headVars>>
NotCarve == <<usnVars, dbVars, partVars, bdeVars, vssVars, walkVars, parseVars,
              evtxVars, prefetchVars, timelineVars, registryVars, mainVars,
              prepEvtxVars, regPathVars, secVars, parentVars, scanVars, headVars>>
NotPart == <<usnVars, dbVars, carveVars, bdeVars, vssVars, walkVars, parseVars,
             evtxVars, prefetchVars, timelineVars, registryVars, mainVars,
             prepEvtxVars, regPathVars, secVars, parentVars, scanVars, headVars>>
NotBde == <<usnVars, dbVars, carveVars, partVars, vssVars, walkVars, parseVars,
            evtxVars, prefetchVars, timelineVars, registryVars, mainVars,
            prepEvtxVars, regPathVars, secVars, parentVars, scanVars, headVars>>
NotVss == <<usnVars, dbVars, carveVars, partVars, bdeVars, walkVars, parseVars,
            evtxVars, prefetchVars, timelineVars, registryVars, mainVars,
            prepEvtxVars, regPathVars, secVars, parentVars, scanVars, headVars>>
NotWalk == <<usnVars, dbVars, carveVars, partVars, bdeVars, vssVars, parseVars,
             evtxVars, prefetchVars, timelineVars, registryVars, mainVars,
             prepEvtxVars, regPathVars, secVars, parentVars, scanVars, headVars>>
NotParse == <<usnVars, dbVars, carveVars, partVars, bdeVars, vssVars, walkVars,
              evtxVars, prefetchVars, timelineVars, registryVars, mainVars,
              prepEvtxVars, regPathVars, secVars, parentVars, scanVars, headVars>>
NotEvtx == <<usnVars, dbVars, carveVars, partVars, bdeVars, vssVars, walkVars,
             parseVars, prefetchVars, timelineVars, registryVars, mainVars,
             prepEvtxVars, regPathVars, secVars, parentVars, scanVars, headVars>>
NotPrefetch == <<usnVars, dbVars, carveVars, partVars, bdeVars, vssVars,
                 walkVars, parseVars, evtxVars, timelineVars, registryVars,
                 mainVars, prepEvtxVars, regPathVars, secVars, parentVars,
                 scanVars, headVars>>
NotTimeline == <<usnVars, dbVars, carveVars, partVars, bdeVars, vssVars,
                 walkVars, parseVars, evtxVars, prefetchVars, registryVars,
                 mainVars, prepEvtxVars, regPathVars, secVars, parentVars,
                 scanVars, headVars>>
NotRegistry == <<usnVars, dbVars, carveVars, partVars, bdeVars, vssVars,
                 walkVars, parseVars, evtxVars, prefetchVars, timelineVars,
                 mainVars, prepEvtxVars, regPathVars, secVars, parentVars,
                 scanVars, headVars>>
NotMain == <<usnVars, dbVars, carveVars, partVars, bdeVars, vssVars, walkVars,
             parseVars, evtxVars, prefetchVars, timelineVars, registryVars,
             prepEvtxVars, regPathVars, secVars, parentVars, scanVars, headVars>>
NotPrepEvtx == <<usnVars, dbVars, carveVars, partVars, bdeVars, vssVars,
                 walkVars, parseVars, evtxVars, prefetchVars, timelineVars,
                 registryVars, mainVars, regPathVars, secVars, parentVars,
                 scanVars, headVars>>
NotRegPath == <<usnVars, dbVars, carveVars, partVars, bdeVars, vssVars,
                walkVars, parseVars, evtxVars, prefetchVars, timelineVars,
                registryVars, mainVars, prepEvtxVars, secVars, parentVars,
                scanVars, headVars>>
NotSec == <<usnVars, dbVars, carveVars, partVars, bdeVars, vssVars, walkVars,
            parseVars, evtxVars, prefetchVars, timelineVars, registryVars,
            mainVars, prepEvtxVars, regPathVars, parentVars, scanVars, headVars>>
NotParent == <<usnVars, dbVars, carveVars, partVars, bdeVars, vssVars,
               walkVars, parseVars, evtxVars, prefetchVars, timelineVars,
               registryVars, mainVars, prepEvtxVars, regPathVars, secVars,
               scanVars, headVars>>
NotScan == <<usnVars, dbVars, carveVars, partVars, bdeVars, vssVars, walkVars,
             parseVars, evtxVars, prefetchVars, timelineVars, registryVars,
             mainVars, prepEvtxVars, regPathVars, secVars, parentVars, headVars>>
NotHead == <<usnVars, dbVars, carveVars, partVars, bdeVars, vssVars, walkVars,
             parseVars, evtxVars, prefetchVars, timelineVars, registryVars,
             mainVars, prepEvtxVars, regPathVars, secVars, parentVars, scanVars>>

----------------------------------------------------------------------------
(* Helpers                                                                 *)

Range(s) == {s[i] : i \in DOMAIN s}

\* dict with key k set to v
DictSet(d, k, v) == [x \in DOMAIN d \cup {k} |-> IF x = k THEN v ELSE d[x]]

\* dict after "del d[k]"
DictDel(d, k) == [x \in DOMAIN d \ {k} |-> d[x]]

EmptyDict == [x \in {} |-> 0]

----------------------------------------------------------------------------
(* The state of a subsystem that is not running                            *)

NoFileDb == [open |-> FALSE, rows |-> <<>>]

UsnIdle ==
    /\ usnMode = "idle" /\ filesCur = NoFileDb
    /\ journal = <<>> /\ usnStore = <<>> /\ record_count = 0
    /\ parent_folders = EmptyDict /\ states_old = EmptyDict /\ renames_old = EmptyDict
    /\ timeline = <<>> /\ emitted = <<>>

NoCall == [op |-> "none"]

DbIdle == dbTable = <<>> /\ dbCall = NoCall /\ dbOps = 0 /\ dbUpdates = 0

NoPartition == [sector_offset |-> 0, sector_count |-> 0, sector_size |-> 0,
                last_byte_offset |-> 0, read_byte_offset |-> 0, image_size |-> 0]

NoByte == -1000

CarveIdle ==
    /\ carvePc = "idle" /\ cvPartition = NoPartition /\ cvArtifacts = {} /\ cvStall = NoByte
    /\ current_data = <<>> /\ current_offset = 0 /\ last_round = FALSE
    /\ cvYielded = <<>> /\ cvStarts = <<>> /\ cvDelivered = <<>>

PartIdle ==
    /\ ptStream = NoPartition /\ ptPartition = [vstype |-> "", type_id |-> "", sector_size |-> 0]
    /\ ptData = <<>> /\ ptRaised = "" /\ ptCalls = 0

NoListing == [raised |-> "", result |-> <<>>]

BdeIdle ==
    /\ bdImage = [vstype |-> "", entries |-> <<>>, bde_recovery |-> ""]
    /\ bdArgs = [part_flag |-> {}] /\ bdListing = NoListing /\ bdCalls = 0

VssIdle ==
    /\ vsPartition = [type_id |-> "", number_of_stores |-> 0, readable |-> FALSE]
    /\ vss_volume = "None" /\ vss_store_cache = <<>> /\ vsObjects = 0
    /\ vsEnums = <<>> /\ vsLookups = 0 /\ vsRaised = ""

WalkIdle ==
    /\ fwFs = <<>> /\ fwPc = "idle" /\ fwTable = <<>> /\ to_scan = <<>>
    /\ count_insert = 0 /\ count_skip = 0 /\ fwProduced = <<>> /\ fwWalks = <<>>

ParseIdle ==
    /\ upJournal = <<>> /\ upPos = 0 /\ upPc = "idle" /\ upRaised = ""
    /\ upStored = <<>> /\ upLog = <<>>

EvtxIdle ==
    /\ evData = <<>> /\ evOffset = 0 /\ evPc = "idle" /\ evYielded = <<>> /\ evRaised = ""

PrefetchIdle ==
    /\ pfStore = <<>> /\ pfExecutes = <<>> /\ pfTimeline = <<>> /\ pfParses = <<>>

TimelineIdle == tlRows = <<>> /\ tlCalls = <<>>

RegistryIdle ==
    /\ rgHive = <<>> /\ rgPc = "idle" /\ rgQueue = <<>> /\ rgCells = <<>>
    /\ rgEmitted = <<>>

MainIdle ==
    /\ mnArgs = <<>> /\ mnPc = "idle" /\ mnStage = 0 /\ mnExit = 0 /\ mnCause = ""

PrepEvtxIdle ==
    /\ peFiles = <<>> /\ peFile = 0 /\ peRecord = 0 /\ pePc = "idle"
    /\ peInserted = <<>> /\ peCommitted = <<>>

RegPathIdle ==
    /\ rpHive = <<>> /\ rpKey = <<>> /\ rpPc = "idle" /\ rpP = 0
    /\ parent_keys = <<>> /\ offsets = {} /\ rpPath = <<>>

SecIdle ==
    /\ saReg = <<>> /\ saBootKey = "idle" /\ saLsaKeys = "idle" /\ saLsaSecrets = "idle"
    /\ saDomainCache = "idle" /\ saLog = <<>>

ParentIdle ==
    /\ plCur = NoFileDb /\ plBuffer = EmptyDict /\ plRecords = <<>> /\ plQueries = <<>>

ScanIdle ==
    /\ scKind = "idle" /\ scSize = 0 /\ scSigs = {} /\ scQuality = "idle" /\ scRead = 0
    /\ scStart = 0 /\ scLen = 0 /\ scOffset = 0 /\ scLastRound = FALSE /\ scPc = "idle"
    /\ scLast = <<>> /\ scPaths = {} /\ scExamined = {} /\ scFound = {}

HeadIdle ==
    /\ ujVariant = "idle" /\ ujJournal = <<>> /\ ujSize = 0 /\ ujPc = "idle" /\ ujRound = 0
    /\ ujOffset = 0 /\ ujChunk = 0 /\ ujTell = 0 /\ ujBufStart = 0 /\ ujBufLen = 0
    /\ ujBufOff = 0 /\ ujStored = <<>> /\ ujLast = <<>>

\* every subsystem but sub is idle
OthersIdle(sub) ==
    /\ sub = "usn" \/ UsnIdle
    /\ sub = "db" \/ DbIdle
    /\ sub = "carve" \/ CarveIdle
    /\ sub = "part" \/ PartIdle
    /\ sub = "bde" \/ BdeIdle
    /\ sub = "vss" \/ VssIdle
    /\ sub = "walk" \/ WalkIdle
    /\ sub = "parse" \/ ParseIdle
    /\ sub = "evtx" \/ EvtxIdle
    /\ sub = "prefetch" \/ PrefetchIdle
    /\ sub = "timeline" \/ TimelineIdle
    /\ sub = "registry" \/ RegistryIdle
    /\ sub = "main" \/ MainIdle
    /\ sub = "prepevtx" \/ PrepEvtxIdle
    /\ sub = "regpath" \/ RegPathIdle
    /\ sub = "sec" \/ SecIdle
    /\ sub = "parent" \/ ParentIdle
    /\ sub = "scan" \/ ScanIdle
    /\ sub = "head" \/ HeadIdle

----------------------------------------------------------------------------
(* Record store: DatabaseObject                                            *)
(* An object is a function from attribute names to values, its db_types a  *)
(* function from the same names to "str", "int", "bool" or "datetime".     *)
(* A datetime is <<"dt", n>> with n the seconds since the epoch.  A table   *)
(* is the sequence of its rows in insertion order, a row a function from   *)
(* column names to stored values.                                          *)

\* datetime(...) at n seconds since the epoch
datetime(n) == <<"dt", n>>

\* datetime.isoformat(): the text form of a datetime
isoformat(dt) == <<"iso", dt[2]>>

\* datetime.fromisoformat()
fromisoformat(text) == <<"dt", text[2]>>

\* datetime.timestamp(): the unix form of a datetime
timestamp_unix(dt) == dt[2]

\* the second column of a datetime attribute: f'{attr}_unix'
UnixCol(attr) == attr \o "_unix"

DatetimeAttrs(types) == {a \in DOMAIN types : types[a] = "datetime"}

\* the stored value of attribute attr (column attr)
StoredValue(obj, types, attr) ==
    IF types[attr] = "datetime" THEN isoformat(obj[attr])
    ELSE IF types[attr] = "bool" THEN (IF obj[attr] THEN 1 ELSE 0)
    ELSE obj[attr]

\* _db_create_insert: the row of an object
db_create_insert(obj, types) ==
    [a \in DOMAIN types |-> StoredValue(obj, types, a)] @@
    [c \in {UnixCol(a) : a \in DatetimeAttrs(types)} |->
        timestamp_unix(obj[SubSeq(c, 1, Len(c) - 5)])]

\* _db_create_table: the columns of the PRIMARY KEY constraint
PrimaryKeyColumns(types, pk) ==
    pk \cup {UnixCol(a) : a \in pk \cap DatetimeAttrs(types)}

\* sqlite: does INSERT of row raise IntegrityError on the PRIMARY KEY constraint
IntegrityError(table, row, pkcols) ==
    /\ pkcols # {}
    /\ \E i \in DOMAIN table : \A c \in pkcols : table[i][c] = row[c]

\* an INSERT OR REPLACE: the row with the primary key of the object is replaced
db_insert_or_replace(table, obj, types, pk) ==
    LET row == db_create_insert(obj, types)
        pkcols == PrimaryKeyColumns(types, pk)
    IN  IF IntegrityError(table, row, pkcols)
        THEN [ok |-> TRUE,
              table |-> [i \in DOMAIN table |->
                            IF \A c \in pkcols : table[i][c] = row[c] THEN row ELSE table[i]]]
        ELSE [ok |-> TRUE, table |-> Append(table, row)]

\* db_insert: [ok |-> returned value, table |-> table afterwards]
db_insert(table, obj, types, pk) ==
    LET row == db_create_insert(obj, types) IN
    IF IntegrityError(table, row, PrimaryKeyColumns(types, pk))
    THEN [ok |-> FALSE, table |-> table]
    ELSE [ok |-> TRUE, table |-> Append(table, row)]

\* update_attrs of db_update: None, or a list of attribute names
NoneAttrs == [none |-> TRUE, list |-> {}]
AttrList(attrs) == [none |-> FALSE, list |-> attrs]

\* "update_attrs is None or attr in update_attrs"
Selected(update_attrs, attr) == update_attrs.none \/ attr \in update_attrs.list

\* _db_create_update: the columns of the WHERE clause
where_fields(types, pk) ==
    {UnixCol(a) : a \in {d \in DatetimeAttrs(types) : UnixCol(d) \in pk}}
    \cup {a \in DOMAIN types : a \in pk}

\* a SET clause of every column but the primary key, whatever update_attrs is
update_fields_all(types, pk, update_attrs) ==
    {UnixCol(a) : a \in {d \in DatetimeAttrs(types) : UnixCol(d) \notin pk}}
    \cup {a \in DOMAIN types : a \notin pk}

\* _db_create_update: the columns of the SET clause
update_fields(types, pk, update_attrs) ==
    {UnixCol(a) : a \in {d \in DatetimeAttrs(types) :
                            UnixCol(d) \notin pk /\ Selected(update_attrs, d)}}
    \cup {a \in DOMAIN types : a \notin pk /\ Selected(update_attrs, a)}

\* sqlite UPDATE: the rows matching the WHERE clause get the SET columns of the object;
\* an empty SET or WHERE list is a syntax error, a broken PRIMARY KEY an IntegrityError
\* [raised |-> did execute raise, table |-> table afterwards]
db_update(table, obj, types, pk, update_attrs) ==
    LET new == db_create_insert(obj, types)
        wh == where_fields(types, pk)
        up == update_fields(types, pk, update_attrs)
        pkcols == PrimaryKeyColumns(types, pk)
        matches(row) == \A c \in wh : row[c] = new[c]
        after == [i \in DOMAIN table |->
                    IF matches(table[i])
                    THEN [c \in DOMAIN table[i] |-> IF c \in up THEN new[c] ELSE table[i][c]]
                    ELSE table[i]]
        broken == \E i, j \in DOMAIN after : i # j /\ \A c \in pkcols : after[i][c] = after[j][c]
    IN  IF up = {} \/ wh = {} \/ broken
        THEN [raised |-> TRUE, table |-> table]
        ELSE [raised |-> FALSE, table |-> after]

\* db_factory: the object of a row
db_factory(row, types) ==
    [a \in DOMAIN types |->
        IF types[a] = "datetime" THEN fromisoformat(row[a])
        ELSE IF types[a] = "bool" THEN row[a] = 1
        ELSE row[a]]

----------------------------------------------------------------------------
(* File store: db_insert, db_update and hash_files on the table of File    *)
(* objects.  File is reduced to two identity attributes (one of them a     *)
(* datetime), the directory flag and two hash attributes.                  *)

MaxDbOps == 3

\* File.__init__: the types of the attributes
FileTypes == [meta_addr |-> "int", crtime |-> "datetime", is_dir |-> "bool",
              md5 |-> "str", sha1 |-> "str"]

\* File.db_primary_key
FilePrimaryKey == {"meta_addr", "crtime"}

\* the File objects of the model
FileIdentities == {<<1, 1>>, <<1, 2>>, <<2, 1>>}
FileObjects ==
    {[meta_addr |-> id[1], crtime |-> datetime(id[2]), is_dir |-> d, md5 |-> m, sha1 |-> h] :
        id \in FileIdentities, d \in BOOLEAN, m \in {"", "md5-old"}, h \in {""}}

\* the update_attrs the callers pass
UpdateAttrs == {NoneAttrs, AttrList({}), AttrList({"md5"}), AttrList({"md5", "sha1"}),
                AttrList({"is_dir", "crtime"})}

\* hash_files: the cleaned-up hash_algorithms (not empty, ValueError otherwise)
HashAlgorithms == {{"md5"}, {"sha1"}, {"md5", "sha1"}}

\* hashlib.<algo>(file_data).hexdigest()
hexdigest(algo, file) == algo \o "-of-" \o ToString(file.meta_addr)

\* hash_files: the file after the hashes asked for and still missing are built
build_hashes(file, hash_algorithms) ==
    [file EXCEPT !.md5 = IF "md5" \in hash_algorithms /\ file.md5 = ""
                         THEN hexdigest("md5", file) ELSE @,
                 !.sha1 = IF "sha1" \in hash_algorithms /\ file.sha1 = ""
                          THEN hexdigest("sha1", file) ELSE @]

\* obj.db_insert(cur)
DbInsert ==
    /\ dbOps < MaxDbOps
    /\ \E obj \in FileObjects :
          LET r == db_insert(dbTable, obj, FileTypes, FilePrimaryKey) IN
          /\ dbTable' = r.table
          /\ dbCall' = [op |-> "insert", obj |-> obj, attrs |-> NoneAttrs,
                        ok |-> r.ok, raised |-> FALSE]
          /\ dbUpdates' = dbUpdates
    /\ dbOps' = dbOps + 1
    /\ UNCHANGED NotDb

\* obj.db_update(cur, update_attrs)
DbUpdate ==
    /\ dbOps < MaxDbOps
    /\ \E obj \in FileObjects, update_attrs \in UpdateAttrs :
          LET r == db_update(dbTable, obj, FileTypes, FilePrimaryKey, update_attrs) IN
          /\ dbTable' = r.table
          /\ dbCall' = [op |-> "update", obj |-> obj, attrs |-> update_attrs,
                        ok |-> TRUE, raised |-> r.raised]
          /\ dbUpdates' = IF r.table # dbTable THEN dbUpdates + 1 ELSE dbUpdates
    /\ dbOps' = dbOps + 1
    /\ UNCHANGED NotDb

\* hash_files: the loop body for one selected file (is_dir = 0) that can be opened and
\* for which a hash was built
HashFile ==
    /\ dbOps < MaxDbOps
    /\ \E i \in DOMAIN dbTable, hash_algorithms \in HashAlgorithms :
          LET selected == db_factory(dbTable[i], FileTypes)
              file == build_hashes(selected, hash_algorithms)
              r == db_update(dbTable, file, FileTypes, FilePrimaryKey, AttrList(hash_algorithms))
          IN  /\ dbTable[i].is_dir = 0
              /\ file # selected
              /\ dbTable' = r.table
              /\ dbCall' = [op |-> "update", obj |-> file, attrs |-> AttrList(hash_algorithms),
                            ok |-> TRUE, raised |-> r.raised]
              /\ dbUpdates' = IF r.table # dbTable THEN dbUpdates + 1 ELSE dbUpdates
    /\ dbOps' = dbOps + 1
    /\ UNCHANGED NotDb

\* db_open: the table is there and empty
InitDb == dbTable = <<>> /\ dbCall = NoCall /\ dbOps = 0 /\ dbUpdates = 0 /\ OthersIdle("db")

NextDb == DbInsert \/ DbUpdate \/ HashFile

SpecDb == InitDb /\ [][NextDb]_vars

----------------------------------------------------------------------------
(* Partition byte stream: PartitionWrapper                                 *)
(* A byte is named by its offset in the image.  A stream is a record of    *)
(* the fields of PartitionWrapper and the size of the image it reads.      *)

Min(a, b) == IF a <= b THEN a ELSE b
Max(a, b) == IF a >= b THEN a ELSE b

\* PartitionWrapper.__init__ on the partition_info (start, len) of an image
PartitionWrapper(image_size, sector_size, start, len) ==
    [sector_offset |-> start, sector_count |-> len, sector_size |-> sector_size,
     last_byte_offset |-> (start + len) * sector_size, read_byte_offset |-> 0,
     image_size |-> image_size]

\* PartitionWrapper.bytes_size
bytes_size(w) == w.sector_count * w.sector_size

\* self._source.handle.read(offset, size): the bytes of the image from offset on, at
\* most size of them; nothing for a size or an offset below 0
handle_read(image_size, offset, size) ==
    IF size <= 0 \/ offset < 0 \/ offset >= image_size THEN <<>>
    ELSE [i \in 1..Min(size, image_size - offset) |-> offset + i - 1]

\* the size argument of read: None or a number
NoneSize == [none |-> TRUE, n |-> 0]
Size(n) == [none |-> FALSE, n |-> n]

\* PartitionWrapper.read: [data |-> the bytes returned, w |-> the stream afterwards]
wrapper_read(w, size) ==
    LET read_size == IF size.none THEN bytes_size(w) - w.read_byte_offset
                     ELSE Min(size.n, bytes_size(w) - w.read_byte_offset)
        offset == Min(w.sector_offset * w.sector_size + w.read_byte_offset, w.last_byte_offset)
    IN  IF read_size = 0 THEN [data |-> <<>>, w |-> w]
        ELSE [data |-> handle_read(w.image_size, offset, read_size),
              w |-> [w EXCEPT !.read_byte_offset = @ + read_size]]

\* PartitionWrapper.tell
wrapper_tell(w) == w.read_byte_offset

\* PartitionWrapper.seek: [raised |-> the exception, "" for none, w |-> the stream afterwards]
wrapper_seek(w, offset, whence) ==
    IF offset < 0 \/ offset > bytes_size(w) THEN [raised |-> "IOError", w |-> w]
    ELSE IF whence = "SEEK_SET"
    THEN [raised |-> "", w |-> [w EXCEPT !.read_byte_offset = Min(offset, bytes_size(w))]]
    ELSE IF whence = "SEEK_CUR"
    THEN [raised |-> "", w |-> [w EXCEPT !.read_byte_offset = Min(@ + offset, bytes_size(w))]]
    ELSE IF whence = "SEEK_END"
    THEN [raised |-> "", w |-> [w EXCEPT !.read_byte_offset = Max(0, bytes_size(w) - offset)]]
    ELSE [raised |-> "RuntimeError", w |-> w]

----------------------------------------------------------------------------
(* Partition byte stream: Partition.read, seek, tell on an allocated       *)
(* partition without BitLocker, whose _decrypted is a PartitionWrapper.    *)
(* SectorSize stands for the 512 bytes of a sector.                        *)

SectorSize == 2
MaxStreamCalls == 3

\* Partition.bytes_size: with the sector size of the file system, if one was found
partition_bytes_size(part, w) == w.sector_count * part.sector_size

\* Partition.read: the first sector for a read of one sector at the end of an NTFS
\* single partition image, the read of the stream otherwise
partition_read(part, w, size) ==
    IF /\ wrapper_tell(w) = partition_bytes_size(part, w)
       /\ part.vstype = "single partition"
       /\ ~size.none /\ size.n = SectorSize
       /\ part.type_id = "NTFS"
    THEN [data |-> handle_read(w.image_size, w.sector_offset * part.sector_size, size.n),
          w |-> w]
    ELSE wrapper_read(w, size)

\* the sizes and offsets of the calls
ReadSizes == {NoneSize, Size(0 - 1), Size(0), Size(1), Size(SectorSize), Size(2 * SectorSize + 1)}
SeekOffsets(w) == (0 - 1)..(bytes_size(w) + 1)
Whences == {"SEEK_SET", "SEEK_CUR", "SEEK_END", "3"}

\* partition.read(size)
PartRead ==
    /\ ptCalls < MaxStreamCalls
    /\ \E size \in ReadSizes :
          LET r == partition_read(ptPartition, ptStream, size) IN
          /\ ptStream' = r.w
          /\ ptData' = r.data
    /\ ptRaised' = ""
    /\ ptCalls' = ptCalls + 1
    /\ UNCHANGED ptPartition
    /\ UNCHANGED NotPart

\* partition.seek(offset, whence)
PartSeek ==
    /\ ptCalls < MaxStreamCalls
    /\ \E offset \in SeekOffsets(ptStream), whence \in Whences :
          LET r == wrapper_seek(ptStream, offset, whence) IN
          /\ ptStream' = r.w
          /\ ptRaised' = r.raised
    /\ ptData' = <<>>
    /\ ptCalls' = ptCalls + 1
    /\ UNCHANGED ptPartition
    /\ UNCHANGED NotPart

\* Partition.__init__: a single partition image (the partition is the whole sectors of
\* the image) or an allocated entry of a partition table
InitPart ==
    /\ \/ \E image_size \in {2 * SectorSize, 2 * SectorSize + 1} :
             /\ ptStream = PartitionWrapper(image_size, SectorSize, 0, image_size \div SectorSize)
             /\ ptPartition \in [vstype : {"single partition"}, type_id : {"NTFS", "FAT16"},
                                  sector_size : {SectorSize}]
       \/ \E len \in 1..2 :
             /\ ptStream = PartitionWrapper((2 + len) * SectorSize, SectorSize, 1, len)
             /\ ptPartition \in [vstype : {"MBR"}, type_id : {"NTFS", ""},
                                  sector_size : {SectorSize}]
    /\ ptData = <<>> /\ ptRaised = "" /\ ptCalls = 0
    /\ OthersIdle("part")

NextPart == PartRead \/ PartSeek

SpecPart == InitPart /\ [][NextPart]_vars

----------------------------------------------------------------------------
(* Carve driver: Partition.carve                                           *)
(* The sizes are scaled down: chunk_size stands for the 50 MiB chunk,      *)
(* CarryWindow for the 0xffffff bytes that stay in the buffer for the next *)
(* round.  A zero byte of the final padding is named by a number below 0.  *)
(* A carver is a pure function of the buffer and the offset: the model     *)
(* fixes at the start at which bytes it finds a record (cvArtifacts) and   *)
(* at which byte, if any, it yields the offset it was invoked with         *)
(* (cvStall); everywhere else it yields an offset that is greater.         *)

MaxSectors == 4
chunk_size == 3
CarryWindow == 1
MaxAdvance == 2

\* b'\0' * chunk_size
ZeroChunk == [i \in 1..chunk_size |-> 0 - i]

\* a carry-over that keeps the whole buffer
keep_all(data, offset) == data

\* current_data[current_offset:]
slice_from(data, offset) == SubSeq(data, offset + 1, Len(data))

\* an assignment that is left out
keep_offset(offset, element) == offset

\* "current_offset = element"
set_offset(offset, element) == element

\* the elements one invocation of the carver yields up to its integer: the records
\* found from the offset on, then the next offset
carver(data, offset, next) ==
    [i \in 1..Len(SelectSeq(SubSeq(data, offset + 1, next), LAMBDA b : b \in cvArtifacts)) |->
        [kind |-> "record",
         at |-> SelectSeq(SubSeq(data, offset + 1, next), LAMBDA b : b \in cvArtifacts)[i]]]
    \o <<[kind |-> "int", value |-> next]>>

\* the integers the carver can yield when invoked at offset
carver_offsets(data, offset) ==
    IF data[offset + 1] = cvStall THEN {offset}
    ELSE (offset + 1)..Min(offset + MaxAdvance, Len(data))

\* the byte a buffer offset designates: a byte of the buffer or the byte read next
NextByte(w) ==
    IF last_round THEN NoByte
    ELSE IF wrapper_read(w, Size(1)).data = <<>> THEN ZeroChunk[1]
    ELSE wrapper_read(w, Size(1)).data[1]

Designated(data, offset) ==
    IF offset < Len(data) THEN data[offset + 1] ELSE NextByte(cvPartition)

\* the outer loop: read a chunk, pad after the end, carry the rest of the buffer over
CarveReadChunk ==
    /\ carvePc = "read"
    /\ LET r == wrapper_read(cvPartition, Size(chunk_size))
           data_chunk == IF r.data = <<>> THEN ZeroChunk ELSE r.data
       IN  /\ cvPartition' = r.w
           /\ last_round' = (r.data = <<>>)
           /\ current_data' = slice_from(current_data, current_offset) \o data_chunk
           /\ current_offset' = 0
    /\ carvePc' = "scan"
    /\ UNCHANGED <<cvArtifacts, cvStall, cvYielded, cvStarts, cvDelivered>>
    /\ UNCHANGED NotCarve

\* the inner loop: one invocation of the carver; the records go to the caller, the
\* integer becomes current_offset.  The progress line divides by self.bytes_size.
CarveInvoke ==
    /\ carvePc = "scan"
    /\ Len(current_data) - current_offset > CarryWindow
    /\ IF bytes_size(cvPartition) = 0
       THEN /\ carvePc' = "raised"
            /\ UNCHANGED <<cvPartition, cvArtifacts, cvStall, current_data, current_offset,
                           last_round, cvYielded, cvStarts, cvDelivered>>
       ELSE \E next \in carver_offsets(current_data, current_offset) :
              LET elements == carver(current_data, current_offset, next)
                  element == elements[Len(elements)]
                  records == SubSeq(elements, 1, Len(elements) - 1)
                  offset == set_offset(current_offset, element.value)
              IN  /\ current_offset' = offset
                  /\ IF offset = current_offset
                     THEN UNCHANGED <<cvYielded, cvStarts, cvDelivered>>
                     ELSE /\ cvYielded' = cvYielded \o
                               [i \in DOMAIN elements |->
                                   IF elements[i].kind = "int"
                                   THEN [kind |-> "int", value |-> elements[i].value,
                                         at |-> Designated(current_data, elements[i].value)]
                                   ELSE elements[i]]
                          /\ cvStarts' = Append(cvStarts, current_data[current_offset + 1])
                          /\ cvDelivered' = cvDelivered \o records
                  /\ UNCHANGED <<carvePc, cvPartition, cvArtifacts, cvStall, current_data,
                                 last_round>>
    /\ UNCHANGED NotCarve

\* the inner loop is left: the next round, or the end after the last one
CarveRoundEnd ==
    /\ carvePc = "scan"
    /\ Len(current_data) - current_offset <= CarryWindow
    /\ carvePc' = IF last_round THEN "done" ELSE "read"
    /\ UNCHANGED <<cvPartition, cvArtifacts, cvStall, current_data, current_offset,
                   last_round, cvYielded, cvStarts, cvDelivered>>
    /\ UNCHANGED NotCarve

\* partition.carve(carver) on a partition of an image with sectors of one byte
InitCarve ==
    /\ carvePc = "read"
    /\ \E start \in 0..1, len \in 0..MaxSectors :
          /\ cvPartition = PartitionWrapper(start + len + 1, 1, start, len)
          /\ cvArtifacts \in SUBSET (start..(start + len - 1))
          /\ cvStall \in {NoByte} \cup (start..(start + len - 1))
    /\ current_data = <<>> /\ current_offset = 0 /\ last_round = FALSE
    /\ cvYielded = <<>> /\ cvStarts = <<>> /\ cvDelivered = <<>>
    /\ OthersIdle("carve")

NextCarve == CarveReadChunk \/ CarveInvoke \/ CarveRoundEnd

SpecCarve == InitCarve /\ [][NextCarve]_vars /\ WF_vars(NextCarve)

----------------------------------------------------------------------------
(* Partition listing: Partition.__init__ and Image.partitions              *)
(* An entry of the partition table is [flags, slot_num, mbr_type,          *)
(* signature, key, fs]: the set of its TSK_VS_PART_FLAG_* flags, its slot, *)
(* the type of its description, whether its first bytes carry the          *)
(* BitLocker signature, the recovery password that unlocks it and the file *)
(* system its plain bytes hold ("" for none).  None is the string "None".  *)

MaxListings == 1

None == "None"

\* pybde.volume.unlock(): is the volume unlocked with the recovery password set, if any
unlock(entry, bde_recovery) == bde_recovery # "" /\ bde_recovery = entry.key

\* pytsk3.FS_Info(BitlockerVolume(self._decrypted)): the file system of an unlocked
\* volume; a locked volume cannot be read, which surfaces as locked_error
fs_info_bitlocker(entry, unlocked, locked_error) ==
    IF ~unlocked THEN [fs |-> None, raised |-> locked_error]
    ELSE IF entry.fs = "" THEN [fs |-> None, raised |-> "OSError"]
    ELSE [fs |-> entry.fs, raised |-> ""]

\* pytsk3.FS_Info(source.handle, offset=...)
fs_info_plain(entry) ==
    IF entry.fs = "" THEN [fs |-> None, raised |-> "OSError"] ELSE [fs |-> entry.fs, raised |-> ""]

\* a BitLocker branch that marks the partition only once it is unlocked
add_info_when_unlocked(signature, unlocked, raised) ==
    IF signature /\ unlocked THEN <<"bitlocker">> ELSE <<>>

\* self._add_info after the probe: 'bitlocker' after unlock(), 'locked' on RuntimeError
add_info(signature, unlocked, raised) ==
    IF ~signature THEN <<>>
    ELSE <<"bitlocker">> \o (IF raised = "RuntimeError" THEN <<"locked">> ELSE <<>>)

\* Partition.__init__ on an entry of the partition table:
\* [raised |-> the exception that leaves __init__, "" for none, partition |-> the object]
Partition(entry, bde_recovery, locked_error) ==
    LET probed == entry.flags = {"ALLOC"}
        unlocked == probed /\ entry.signature /\ unlock(entry, bde_recovery)
        found == IF ~probed THEN [fs |-> None, raised |-> ""]
                 ELSE IF entry.signature THEN fs_info_bitlocker(entry, unlocked, locked_error)
                 ELSE fs_info_plain(entry)
        caught == IF probed /\ entry.signature THEN {"OSError", "RuntimeError"} ELSE {"OSError"}
    IN  [raised |-> IF found.raised \in caught THEN "" ELSE found.raised,
         partition |->
            [flags |-> entry.flags, slot_num |-> entry.slot_num,
             type_id |-> IF found.fs # None THEN found.fs
                         ELSE IF "ALLOC" \in entry.flags THEN entry.mbr_type ELSE "0",
             filesystem |-> found.fs,
             add_info |-> IF probed THEN add_info(entry.signature, unlocked, found.raised)
                          ELSE <<>>]]

\* Partition.is_crypted
is_crypted(partition) == "bitlocker" \in Range(partition.add_info)

\* Partition.part_name
part_name(partition) == ToString(partition.slot_num)

\* Partition(self): the partition of a single partition image; bde_recovery is not passed
SinglePartition(entry, locked_error) ==
    Partition([entry EXCEPT !.flags = {"ALLOC"}, !.slot_num = 0, !.mbr_type = "0"],
              "", locked_error)

\* the filters of Image.partitions on one partition
listed(partition, args) ==
    /\ partition.flags \cap args.part_flag # {}
    /\ args.part_name = None \/ part_name(partition) = args.part_name
    /\ ~args.only_with_filesystem \/ partition.filesystem # None
    /\ args.filesystem_typeid = None \/ partition.type_id = args.filesystem_typeid

\* Image.partitions: [raised, result]
partitions(image, args, locked_error) ==
    IF image.vstype = "single partition"
    THEN LET built == SinglePartition(image.entries[1], locked_error) IN
         IF built.raised # "" THEN [raised |-> built.raised, result |-> <<>>]
         ELSE [raised |-> "", result |-> <<built.partition>>]
    ELSE LET built == [i \in DOMAIN image.entries |->
                          Partition(image.entries[i], image.bde_recovery, locked_error)]
         IN  IF \E i \in DOMAIN built : built[i].raised # ""
             THEN [raised |-> built[CHOOSE i \in DOMAIN built : built[i].raised # ""].raised,
                   result |-> <<>>]
             ELSE [raised |-> "",
                   result |-> SelectSeq([i \in DOMAIN built |-> built[i].partition],
                                        LAMBDA q : listed(q, args))]

\* the entries, images and arguments of the model
EntryKinds ==
    {[flags |-> {"UNALLOC"}, mbr_type |-> "0", signature |-> FALSE, key |-> "", fs |-> ""],
     [flags |-> {"ALLOC"}, mbr_type |-> "0x07", signature |-> FALSE, key |-> "", fs |-> "NTFS"],
     [flags |-> {"ALLOC"}, mbr_type |-> "0x83", signature |-> FALSE, key |-> "", fs |-> ""],
     [flags |-> {"ALLOC"}, mbr_type |-> "0x07", signature |-> TRUE, key |-> "right", fs |-> "NTFS"]}

Entry(kind, slot_num) ==
    [flags |-> kind.flags, slot_num |-> slot_num, mbr_type |-> kind.mbr_type,
     signature |-> kind.signature, key |-> kind.key, fs |-> kind.fs]

Images ==
    {[vstype |-> "single partition", entries |-> <<Entry(k, 0)>>, bde_recovery |-> r] :
        k \in {e \in EntryKinds : e.flags = {"ALLOC"}}, r \in {"", "wrong", "right"}}
    \cup {[vstype |-> "MBR", entries |-> <<Entry(k1, 0), Entry(k2, 1)>>, bde_recovery |-> r] :
        k1 \in EntryKinds, k2 \in EntryKinds, r \in {"", "wrong", "right"}}

ListingArgs ==
    [part_flag : {{"ALLOC"}, {"ALLOC", "UNALLOC"}}, part_name : {None, "0", "1"},
     only_with_filesystem : BOOLEAN, filesystem_typeid : {None, "NTFS"}]

\* image.partitions(...)
ListPartitions ==
    /\ bdCalls < MaxListings
    /\ \E args \in ListingArgs, locked_error \in {"OSError", "RuntimeError"} :
          /\ bdArgs' = args
          /\ bdListing' = partitions(bdImage, args, locked_error)
    /\ bdCalls' = bdCalls + 1
    /\ UNCHANGED bdImage
    /\ UNCHANGED NotBde

InitBde ==
    /\ bdImage \in Images
    /\ bdArgs = [part_flag |-> {}] /\ bdListing = NoListing /\ bdCalls = 0
    /\ OthersIdle("bde")

SpecBde == InitBde /\ [][ListPartitions]_vars

----------------------------------------------------------------------------
(* Volume shadow copies: Partition.get_volume_shadow_copy_filesystems and  *)
(* Partition.get_volume_shadow_copy_filesystem.  Store and filesystem      *)
(* objects are named by the order in which they are made.                  *)

MaxStores == 2
MaxVssCalls == 3

\* self._vss_volume after the open at the head of both functions
vss_open(part, volume) ==
    IF volume # None THEN volume
    ELSE IF part.readable THEN "open" ELSE None

\* store = get_store(i); filesystem = FS_Info(VSSStore(store)); the cache entry
vss_make(made) == [store |-> made + 1, filesystem |-> made + 2]

RECURSIVE vss_iterate(_, _, _, _)
\* the for loop of the generator from store i on:
\* [yielded |-> the tuples yielded, cache |-> the cache afterwards, made |-> objects made]
vss_iterate(i, n, cache, made) ==
    IF i >= n THEN [yielded |-> <<>>, cache |-> cache, made |-> made]
    ELSE IF i \in DOMAIN cache
         THEN \* return inside a generator: the iteration ends
              [yielded |-> <<>>, cache |-> cache, made |-> made]
         ELSE LET rest == vss_iterate(i + 1, n, DictSet(cache, i, vss_make(made)), made + 2)
              IN  [rest EXCEPT !.yielded =
                      <<[store_id |-> i, store |-> vss_make(made).store,
                         filesystem |-> vss_make(made).filesystem]>> \o rest.yielded]

\* list(partition.get_volume_shadow_copy_filesystems())
EnumerateStores ==
    /\ Len(vsEnums) + vsLookups < MaxVssCalls
    /\ IF vsPartition.type_id # "NTFS"
       THEN /\ vsEnums' = Append(vsEnums, <<>>)
            /\ UNCHANGED <<vss_volume, vss_store_cache, vsObjects>>
       ELSE /\ vss_volume' = vss_open(vsPartition, vss_volume)
            /\ IF vss_volume' = None
               THEN /\ vsEnums' = Append(vsEnums, <<>>)
                    /\ UNCHANGED <<vss_store_cache, vsObjects>>
               ELSE LET run == vss_iterate(0, vsPartition.number_of_stores,
                                           vss_store_cache, vsObjects)
                    IN  /\ vsEnums' = Append(vsEnums, run.yielded)
                        /\ vss_store_cache' = run.cache
                        /\ vsObjects' = run.made
    /\ vsRaised' = ""
    /\ UNCHANGED <<vsPartition, vsLookups>>
    /\ UNCHANGED NotVss

\* partition.get_volume_shadow_copy_filesystem(store_id)
LookupStore ==
    /\ Len(vsEnums) + vsLookups < MaxVssCalls
    /\ \E store_id \in 0..(vsPartition.number_of_stores - 1) :
          IF vsPartition.type_id # "NTFS"
          THEN /\ vsRaised' = "TypeError"
               /\ UNCHANGED <<vss_volume, vss_store_cache, vsObjects>>
          ELSE /\ vss_volume' = vss_open(vsPartition, vss_volume)
               /\ IF vss_volume' = None
                  THEN /\ vsRaised' = "ValueError"
                       /\ UNCHANGED <<vss_store_cache, vsObjects>>
                  ELSE /\ vsRaised' = ""
                       /\ IF store_id \in DOMAIN vss_store_cache
                          THEN UNCHANGED <<vss_store_cache, vsObjects>>
                          ELSE /\ vss_store_cache' =
                                      DictSet(vss_store_cache, store_id, vss_make(vsObjects))
                               /\ vsObjects' = vsObjects + 2
    /\ vsLookups' = vsLookups + 1
    /\ UNCHANGED <<vsPartition, vsEnums>>
    /\ UNCHANGED NotVss

InitVss ==
    /\ vsPartition \in [type_id : {"NTFS", "FAT16"}, number_of_stores : 0..MaxStores,
                        readable : BOOLEAN]
    /\ vss_volume = None /\ vss_store_cache = <<>> /\ vsObjects = 0
    /\ vsEnums = <<>> /\ vsLookups = 0 /\ vsRaised = ""
    /\ OthersIdle("vss")

NextVss == EnumerateStores \/ LookupStore

SpecVss == InitVss /\ [][NextVss]_vars

----------------------------------------------------------------------------
(* Directory walk: prepare_files and scan_dir.  A directory entry is       *)
(* [meta_addr, name, is_dir, allocated, size, crtime, ads]; ads is the     *)
(* list of the names of its alternate data streams.                        *)

MaxWalks == 2

RootAddr == 5

\* the attributes of a File in the walk and the part of db_primary_key they cover
WalkFileTypes ==
    [meta_addr |-> "int", name |-> "str", parent_folder |-> "str", size |-> "int",
     crtime |-> "datetime", is_dir |-> "bool", allocated |-> "bool", source |-> "str"]

\* a File class without a primary key
WalkNoPrimaryKey == {}

WalkFilePrimaryKey == {"meta_addr", "name", "parent_folder", "size", "crtime"}

\* File(tsk3_file, partition): the File of a directory entry; parent_folder is ''
File(entry) ==
    [meta_addr |-> entry.meta_addr, name |-> entry.name, parent_folder |-> "",
     size |-> entry.size, crtime |-> datetime(entry.crtime), is_dir |-> entry.is_dir,
     allocated |-> entry.allocated, source |-> "filesystem"]

\* a full_name that joins parent_folder and name in every case
full_name_joined(file) == file.parent_folder \o "/" \o file.name

\* File.full_name
file_full_name(file) ==
    IF file.parent_folder = "/" THEN "/" \o file.name
    ELSE file.parent_folder \o "/" \o file.name

RECURSIVE join(_, _)
\* sep.join(names)
join(sep, names) ==
    IF names = <<>> THEN ""
    ELSE IF Len(names) = 1 THEN names[1]
    ELSE names[1] \o sep \o join(sep, Tail(names))

\* File.ntfs_ads: the pseudo files of the alternate data streams
ntfs_ads(file, entry) ==
    [k \in DOMAIN entry.ads |->
        [file EXCEPT !.name = file.name \o ":" \o entry.ads[k], !.size = k]]

\* File.entries: the entries of a directory; none unless it is an allocated directory
dir_entries(fs, entry) ==
    IF ~entry.is_dir \/ ~entry.allocated THEN <<>> ELSE fs[entry.meta_addr]

\* what the walk remembers of a File handed to db_insert
Produced(file, depth) ==
    [name |-> file.name, parent_folder |-> file.parent_folder,
     full_name |-> file_full_name(file), depth |-> depth]

RECURSIVE insert_files(_, _, _)
\* db_insert of each file of a list in order, counting inserted and skipped
insert_files(acc, files, i) ==
    IF i > Len(files) THEN acc
    ELSE LET ins == db_insert(acc.table, files[i], WalkFileTypes, WalkFilePrimaryKey) IN
         insert_files([table |-> ins.table,
                       count_insert |-> acc.count_insert + (IF ins.ok THEN 1 ELSE 0),
                       count_skip |-> acc.count_skip + (IF ins.ok THEN 0 ELSE 1)],
                      files, i + 1)

RECURSIVE scan_entries(_, _, _, _)
\* the for loop of scan_dir over the entries of one directory, from entry i on
scan_entries(acc, entries, parents, i) ==
    IF i > Len(entries) THEN acc
    ELSE IF entries[i].name \in {".", ".."} THEN scan_entries(acc, entries, parents, i + 1)
    ELSE LET entry == [File(entries[i]) EXCEPT !.parent_folder = "/" \o join("/", parents)]
             files == <<entry>> \o ntfs_ads(entry, entries[i])
             ins == insert_files([table |-> acc.table, count_insert |-> acc.count_insert,
                                  count_skip |-> acc.count_skip], files, 1)
         IN  scan_entries(
                [table |-> ins.table, count_insert |-> ins.count_insert,
                 count_skip |-> ins.count_skip,
                 to_scan |-> IF entry.is_dir /\ entry.allocated
                             THEN Append(acc.to_scan,
                                         [dir |-> entries[i],
                                          parents |-> Append(parents, entry.name)])
                             ELSE acc.to_scan,
                 produced |-> acc.produced \o
                              [k \in DOMAIN files |-> Produced(files[k], Len(parents) + 1)]],
                entries, parents, i + 1)

\* partition.get_file('/')
RootEntry ==
    [meta_addr |-> RootAddr, name |-> "", is_dir |-> TRUE, allocated |-> TRUE, size |-> 0,
     crtime |-> 1, ads |-> <<>>]

\* prepare_files up to the call of scan_dir: the root is inserted and put on the stack
PrepareFilesStart ==
    /\ fwPc = "ready" /\ Len(fwWalks) < MaxWalks
    /\ LET root == [File(RootEntry) EXCEPT !.name = "/"] IN
        /\ fwTable' = db_insert(fwTable, root, WalkFileTypes, WalkFilePrimaryKey).table
        /\ to_scan' = <<[dir |-> RootEntry, parents |-> <<>>]>>
        /\ fwProduced' = Append(fwProduced, Produced(root, 0))
    /\ count_insert' = 0 /\ count_skip' = 0
    /\ fwPc' = "scan"
    /\ UNCHANGED <<fwFs, fwWalks>>
    /\ UNCHANGED NotWalk

\* one round of the while loop of scan_dir: pop a directory and handle its entries
ScanDirRound ==
    /\ fwPc = "scan" /\ Len(to_scan) > 0
    /\ LET item == to_scan[Len(to_scan)]
           run == scan_entries([table |-> fwTable, count_insert |-> count_insert,
                                count_skip |-> count_skip,
                                to_scan |-> SubSeq(to_scan, 1, Len(to_scan) - 1),
                                produced |-> fwProduced],
                               dir_entries(fwFs, item.dir), item.parents, 1)
       IN  /\ fwTable' = run.table /\ count_insert' = run.count_insert
           /\ count_skip' = run.count_skip /\ to_scan' = run.to_scan
           /\ fwProduced' = run.produced
    /\ UNCHANGED <<fwFs, fwPc, fwWalks>>
    /\ UNCHANGED NotWalk

\* scan_dir returns; prepare_files commits and logs the counts
ScanDirReturn ==
    /\ fwPc = "scan" /\ Len(to_scan) = 0
    /\ fwWalks' = Append(fwWalks, [table |-> fwTable, count_insert |-> count_insert,
                                   count_skip |-> count_skip])
    /\ fwPc' = "ready"
    /\ UNCHANGED <<fwFs, fwTable, to_scan, count_insert, count_skip, fwProduced>>
    /\ UNCHANGED NotWalk

Dots(addr) ==
    <<[meta_addr |-> addr, name |-> ".", is_dir |-> TRUE, allocated |-> TRUE, size |-> 0,
       crtime |-> 1, ads |-> <<>>],
      [meta_addr |-> addr, name |-> "..", is_dir |-> TRUE, allocated |-> TRUE, size |-> 0,
       crtime |-> 1, ads |-> <<>>]>>

\* the file systems of the model: /a.txt (with or without a stream), /Users,
\* /Users/b.txt, /Users/Docs, /Users/Docs/c.txt
FileSystems ==
    {[d \in {RootAddr, 11, 13} |->
        IF d = RootAddr
        THEN Dots(RootAddr)
             \o (IF hasA THEN <<[meta_addr |-> 10, name |-> "a.txt", is_dir |-> FALSE,
                                  allocated |-> TRUE, size |-> 3, crtime |-> 2,
                                  ads |-> IF adsA THEN <<"Zone.Identifier">> ELSE <<>>]>>
                  ELSE <<>>)
             \o <<[meta_addr |-> 11, name |-> "Users", is_dir |-> TRUE,
                    allocated |-> usersAlloc, size |-> 0, crtime |-> 2, ads |-> <<>>]>>
        ELSE IF d = 11
        THEN Dots(11)
             \o <<[meta_addr |-> 12, name |-> "b.txt", is_dir |-> FALSE, allocated |-> bAlloc,
                    size |-> 4, crtime |-> 3, ads |-> <<>>]>>
             \o (IF hasDocs THEN <<[meta_addr |-> 13, name |-> "Docs", is_dir |-> TRUE,
                                     allocated |-> TRUE, size |-> 0, crtime |-> 3,
                                     ads |-> <<>>]>>
                  ELSE <<>>)
        ELSE Dots(13)
             \o <<[meta_addr |-> 14, name |-> "c.txt", is_dir |-> FALSE, allocated |-> TRUE,
                    size |-> 5, crtime |-> 4, ads |-> <<>>]>>] :
     hasA \in BOOLEAN, adsA \in BOOLEAN, usersAlloc \in BOOLEAN, bAlloc \in BOOLEAN,
     hasDocs \in BOOLEAN}

InitWalk ==
    /\ fwFs \in FileSystems
    /\ fwPc = "ready" /\ fwTable = <<>> /\ to_scan = <<>>
    /\ count_insert = 0 /\ count_skip = 0 /\ fwProduced = <<>> /\ fwWalks = <<>>
    /\ OthersIdle("walk")

NextWalk == PrepareFilesStart \/ ScanDirRound \/ ScanDirReturn

SpecWalk == InitWalk /\ [][NextWalk]_vars

----------------------------------------------------------------------------
(* Streaming USN parse: the loop of prepare_usnjournal over read_buffer.   *)
(* The journal is a sequence of 4-byte cells.  A cell that starts a record *)
(* carries what the parser reads at it: rec_len, the version, whether the  *)
(* fixed fields are valid, fn_offset and fn_len, and whether the padding   *)
(* after the record is zero.                                               *)

MaxUsnItems == 2

\* raw[8:60]: the end of the fixed part of a record
USN_HEADER_END == 60

Cell(zero, version, id, rec_len, fields_ok, fn_offset, fn_len, pad_zero) ==
    [zero |-> zero, version |-> version, id |-> id, rec_len |-> rec_len,
     fields_ok |-> fields_ok, fn_offset |-> fn_offset, fn_len |-> fn_len,
     pad_zero |-> pad_zero]

ZeroCell == Cell(TRUE, "0.0", 0, 0, FALSE, 0, 0, TRUE)
BodyCell == Cell(FALSE, "other", 0, 0, FALSE, 0, 0, TRUE)

\* the cells of a record: its first cell and the cells of the rest of its bytes
RecordCells(id, rec_len, fields_ok, fn_offset, fn_len, pad_zero) ==
    <<Cell(FALSE, "2.0", id, rec_len, fields_ok, fn_offset, fn_len, pad_zero)>>
    \o [k \in 1..((rec_len + 3) \div 4 - 1) |-> BodyCell]

\* the items a journal of the model is made of
UsnItemKinds == {"zero", "other", "r59", "r60", "r62", "r62pad", "r64bad"}

UsnItem(kind, id) ==
    CASE kind = "zero" -> <<ZeroCell>>
      [] kind = "other" -> <<BodyCell>>
      [] kind = "r59" -> RecordCells(id, 59, TRUE, 56, 2, TRUE)
      [] kind = "r60" -> RecordCells(id, 60, TRUE, 58, 2, TRUE)
      [] kind = "r62" -> RecordCells(id, 62, TRUE, 60, 2, TRUE)
      [] kind = "r62pad" -> RecordCells(id, 62, TRUE, 60, 2, FALSE)
      [] kind = "r64bad" -> RecordCells(id, 64, FALSE, 60, 4, TRUE)

RECURSIVE UsnJournalOf(_, _)
UsnJournalOf(kinds, i) ==
    IF i > Len(kinds) THEN <<>> ELSE UsnItem(kinds[i], i) \o UsnJournalOf(kinds, i + 1)

\* USNRecordV2.from_raw on the raw_len bytes read at a cell: "ok" or the exception
from_raw_outcome(cell, raw_len) ==
    IF raw_len < USN_HEADER_END THEN "struct.error"
    ELSE IF ~cell.fields_ok THEN "AttributeError"
    ELSE IF cell.fn_len % 2 # 0 \/ cell.fn_len = 0 THEN "AttributeError"
    ELSE IF cell.fn_offset + cell.fn_len > raw_len THEN "AttributeError"
    ELSE "ok"

\* the handler of the try block around from_raw: except AttributeError
parse_caught(exception) == exception = "AttributeError"

LogEntry(cell, outcome) ==
    [id |-> cell.id, rec_len |-> cell.rec_len,
     valid |-> cell.fields_ok /\ cell.fn_len % 2 = 0 /\ cell.fn_len > 0
               /\ cell.fn_offset + cell.fn_len <= cell.rec_len,
     pad_zero |-> cell.pad_zero, outcome |-> outcome]

\* one round of the while loop
UsnParseRound ==
    /\ upPc = "parse"
    /\ LET total == 4 * Len(upJournal)
           remaining == total - upPos
           cell == upJournal[upPos \div 4 + 1]
           raw_len == Min(cell.rec_len, remaining)
           outcome == from_raw_outcome(cell, raw_len)
           padded == cell.rec_len % 4 # 0
           pad_seen == padded /\ upPos + cell.rec_len < total /\ ~cell.pad_zero
       IN  IF remaining < 8
           THEN \* break: the pass commits and ends
                /\ upPc' = "done"
                /\ UNCHANGED <<upPos, upRaised, upStored, upLog>>
           ELSE IF cell.zero \/ cell.version # "2.0"
           THEN /\ upPos' = upPos + 4
                /\ UNCHANGED <<upPc, upRaised, upStored, upLog>>
           ELSE IF outcome # "ok"
           THEN IF parse_caught(outcome)
                THEN /\ upPos' = upPos + 4
                     /\ upLog' = Append(upLog, LogEntry(cell, "skipped"))
                     /\ UNCHANGED <<upPc, upRaised, upStored>>
                ELSE /\ upPc' = "raised" /\ upRaised' = outcome
                     /\ upLog' = Append(upLog, LogEntry(cell, "raised"))
                     /\ UNCHANGED <<upPos, upStored>>
           ELSE IF pad_seen
           THEN IF parse_caught("ValueError")
                THEN /\ upPos' = upPos + 4
                     /\ upLog' = Append(upLog, LogEntry(cell, "skipped"))
                     /\ UNCHANGED <<upPc, upRaised, upStored>>
                ELSE /\ upPc' = "raised" /\ upRaised' = "ValueError"
                     /\ upLog' = Append(upLog, LogEntry(cell, "raised"))
                     /\ UNCHANGED <<upPos, upStored>>
           ELSE /\ upPos' = upPos + cell.rec_len
                            + (IF padded THEN 4 - (cell.rec_len % 4) ELSE 0)
                /\ upStored' = Append(upStored, cell.id)
                /\ upLog' = Append(upLog, LogEntry(cell, "stored"))
                /\ UNCHANGED <<upPc, upRaised>>
    /\ UNCHANGED upJournal
    /\ UNCHANGED NotParse

InitUsnParse ==
    /\ \E n \in 1..MaxUsnItems : \E kinds \in [1..n -> UsnItemKinds] :
          upJournal = UsnJournalOf(kinds, 1)
    /\ upPos = 0 /\ upPc = "parse" /\ upRaised = "" /\ upStored = <<>> /\ upLog = <<>>
    /\ OthersIdle("parse")

SpecUsnParse == InitUsnParse /\ [][UsnParseRound]_vars

----------------------------------------------------------------------------
(* EVTX carver: evtx_carver.  A buffer is described by its length, the     *)
(* offsets at which the bytes 'ElfChnk\\0' occur, whether a chunk has byte  *)
(* 40 = 128 and '**\\0\\0' at 512, and the records of a chunk: a record is  *)
(* [lxml, dict], the exceptions record.lxml() and xml_to_dict raise on it   *)
(* ("" for none).                                                          *)

MaxEvtxRecords == 3

EVTX_CARVER_OFFSET_STEP == 512

\* the bytes at the end of the buffer that the search leaves out: -64*1024
EVTX_SEARCH_TAIL == 65536

\* current_data.index(b'ElfChnk\\0', current_offset, -64*1024): the offsets found
index_candidates(data, offset) ==
    {o \in data.signatures : o >= offset /\ o + 8 <= data.len - EVTX_SEARCH_TAIL}

\* a carver that takes a signature at any offset
evtx_any_offset(offset) == TRUE

\* candidate_offset % 512 != 0, negated
evtx_aligned(offset) == offset % EVTX_CARVER_OFFSET_STEP = 0

\* except (...) around record.lxml()
lxml_caught(exception) ==
    exception \in {"OverrunBufferException", "UnicodeDecodeError", "KeyError",
                   "ParseException", "XMLSyntaxError", "AttributeError", "IndexError",
                   "RecursionError"}

\* except (ValueError, IndexError) around xml_to_dict
dict_caught(exception) == exception \in {"ValueError", "IndexError"}

\* Event(**event) of record i of the chunk at offset, with event['carved'] = True
CarvedEvent(offset, i) == [kind |-> "event", chunk |-> offset, record |-> i, carved |-> TRUE]

IntElement(n) == [kind |-> "int", value |-> n]

RECURSIVE evtx_records_until_failure(_, _, _)
\* a loop over the records that ends at the first record that fails
evtx_records_until_failure(records, offset, i) ==
    IF i > Len(records) THEN [yielded |-> <<>>, raised |-> ""]
    ELSE IF records[i].lxml # "" \/ records[i].dict # "" THEN [yielded |-> <<>>, raised |-> ""]
    ELSE LET rest == evtx_records_until_failure(records, offset, i + 1) IN
         [rest EXCEPT !.yielded = <<CarvedEvent(offset, i)>> \o rest.yielded]

RECURSIVE evtx_records(_, _, _)
\* for record in chunk.records(), from record i on: [yielded, raised]
evtx_records(records, offset, i) ==
    IF i > Len(records) THEN [yielded |-> <<>>, raised |-> ""]
    ELSE IF records[i].lxml # ""
    THEN IF lxml_caught(records[i].lxml) THEN evtx_records(records, offset, i + 1)
         ELSE [yielded |-> <<>>, raised |-> records[i].lxml]
    ELSE IF records[i].dict # ""
    THEN IF dict_caught(records[i].dict) THEN evtx_records(records, offset, i + 1)
         ELSE [yielded |-> <<>>, raised |-> records[i].dict]
    ELSE LET rest == evtx_records(records, offset, i + 1) IN
         [rest EXCEPT !.yielded = <<CarvedEvent(offset, i)>> \o rest.yielded]

\* evtx_carver(current_data, current_offset): [yielded, raised]
evtx_carver(data, offset) ==
    IF index_candidates(data, offset) = {}
    THEN [yielded |-> <<IntElement(data.len - EVTX_SEARCH_TAIL + EVTX_CARVER_OFFSET_STEP)>>,
          raised |-> ""]
    ELSE LET candidate_offset ==
                 CHOOSE o \in index_candidates(data, offset) :
                     \A p \in index_candidates(data, offset) : o <= p
         IN  IF ~evtx_aligned(candidate_offset)
             THEN [yielded |-> <<IntElement(candidate_offset
                                            - (candidate_offset % EVTX_CARVER_OFFSET_STEP)
                                            + EVTX_CARVER_OFFSET_STEP)>>,
                   raised |-> ""]
             ELSE IF ~data.byte40_ok \/ ~data.magic_ok
             THEN [yielded |-> <<IntElement(candidate_offset + EVTX_CARVER_OFFSET_STEP)>>,
                   raised |-> ""]
             ELSE LET run == evtx_records(data.records, candidate_offset, 1) IN
                  IF run.raised # "" THEN run
                  ELSE [yielded |-> Append(run.yielded,
                                           IntElement(candidate_offset
                                                      + EVTX_CARVER_OFFSET_STEP)),
                        raised |-> ""]

\* list(evtx_carver(current_data, current_offset))
EvtxCarve ==
    /\ evPc = "call"
    /\ evYielded' = evtx_carver(evData, evOffset).yielded
    /\ evRaised' = evtx_carver(evData, evOffset).raised
    /\ evPc' = "done"
    /\ UNCHANGED <<evData, evOffset>>
    /\ UNCHANGED NotEvtx

\* the records of the model: parsed, lxml() fails, xml_to_dict fails
EvtxRecordKinds ==
    {[lxml |-> "", dict |-> ""], [lxml |-> "OverrunBufferException", dict |-> ""],
     [lxml |-> "", dict |-> "ValueError"]}

EvtxOffsets ==
    {0, 40, EVTX_CARVER_OFFSET_STEP, EVTX_CARVER_OFFSET_STEP + 40,
     2 * EVTX_CARVER_OFFSET_STEP, 4 * EVTX_CARVER_OFFSET_STEP}

InitEvtx ==
    /\ \E sigs \in SUBSET EvtxOffsets, b \in BOOLEAN, m \in BOOLEAN, n \in 0..MaxEvtxRecords :
          \E recs \in [1..n -> EvtxRecordKinds] :
             evData = [len |-> EVTX_SEARCH_TAIL + 4 * EVTX_CARVER_OFFSET_STEP,
                       signatures |-> sigs, byte40_ok |-> b, magic_ok |-> m, records |-> recs]
    /\ evOffset \in {0, 40, EVTX_CARVER_OFFSET_STEP}
    /\ evPc = "call" /\ evYielded = <<>> /\ evRaised = ""
    /\ OthersIdle("evtx")

SpecEvtx == InitEvtx /\ [][EvtxCarve]_vars

----------------------------------------------------------------------------
(* USN journal: reason bitmaps                                             *)
(* A bitmap is modelled as the set of the positions of its set bits; the   *)
(* USN_REASON_* definitions give the bit positions.                        *)

USN_REASON_CLOSE == 31
USN_REASON_DATA_EXTEND == 1
USN_REASON_FILE_CREATE == 8
USN_REASON_FILE_DELETE == 9
USN_REASON_RENAME_NEW_NAME == 13
USN_REASON_RENAME_OLD_NAME == 12

\* USN_REASON_DESCRIPTION, in the order of the dict
USN_REASON_DESCRIPTION ==
    << [flag |-> USN_REASON_CLOSE, descr |-> "File_Closed"],
       [flag |-> USN_REASON_DATA_EXTEND, descr |-> "Data_Added"],
       [flag |-> USN_REASON_FILE_CREATE, descr |-> "File_Created"],
       [flag |-> USN_REASON_FILE_DELETE, descr |-> "File_Deleted"],
       [flag |-> USN_REASON_RENAME_NEW_NAME, descr |-> "File_Renamed_New"],
       [flag |-> USN_REASON_RENAME_OLD_NAME, descr |-> "File_Renamed_Old"] >>

RECURSIVE reason_to_hr_from(_, _)
reason_to_hr_from(reason, i) ==
    IF i > Len(USN_REASON_DESCRIPTION) THEN <<>>
    ELSE (IF USN_REASON_DESCRIPTION[i].flag \in reason
          THEN <<USN_REASON_DESCRIPTION[i].descr>> ELSE <<>>)
         \o reason_to_hr_from(reason, i + 1)

\* _reason_to_hr: the names of the set bits, in dict order (joined by " / ")
reason_to_hr(reason) == reason_to_hr_from(reason, 1)

\* hr_reason_to_int: the bitmap of a rendered reason
hr_reason_to_int(hr) ==
    {USN_REASON_DESCRIPTION[i].flag :
        i \in {j \in DOMAIN USN_REASON_DESCRIPTION : USN_REASON_DESCRIPTION[j].descr \in Range(hr)}}

----------------------------------------------------------------------------
(* USN journal: records, parent folder lookup, timeline projection         *)

\* bound: the number of records one pass processes
MaxRecords == 3

\* (file_addr, file_seq) of the files of the journal: one MFT entry, two sequence numbers
FileRefs == {<<5, 1>>, <<5, 2>>}

\* (par_addr, par_seq) of the parent directory of the records
ParRef == <<5, 5>>

Names == {"a.txt", "b.txt"}

\* the reason bitmaps of the records (all pass the reason check of from_raw)
ReasonMasks ==
    { {USN_REASON_FILE_CREATE},
      {USN_REASON_FILE_CREATE, USN_REASON_CLOSE},
      {USN_REASON_FILE_DELETE, USN_REASON_CLOSE},
      {USN_REASON_DATA_EXTEND},
      {USN_REASON_RENAME_OLD_NAME, USN_REASON_CLOSE},
      {USN_REASON_RENAME_NEW_NAME, USN_REASON_CLOSE} }

\* what a valid raw record carries, as far as the pass reads it
UsnInputs == [file : FileRefs, reason : ReasonMasks, name : Names]

\* db_types of USNRecordV2 (source_info, sec_id and file_attr are not read by the pass)
USNRecordV2Types ==
    [timestamp |-> "datetime", file_addr |-> "int", file_seq |-> "int", par_addr |-> "int",
     par_seq |-> "int", usn |-> "int", reason |-> "str", name |-> "str",
     parent_folder |-> "str", carved |-> "bool"]

\* USNRecordV2.db_primary_key
USNRecordV2PrimaryKey == {"usn"}

\* db_types of Timeline
TimelineTypes ==
    [timestamp |-> "datetime", event_source |-> "str", event_type |-> "str", message |-> "str",
     param1 |-> "str", param2 |-> "str", param3 |-> "str", param4 |-> "str"]

TimelineKeyWithMessage ==
    {"timestamp", "event_source", "event_type", "message", "param1", "param2", "param3",
     "param4"}

\* Timeline.db_primary_key
TimelinePrimaryKey ==
    {"timestamp", "event_source", "event_type", "param1", "param2", "param3", "param4"}

\* Timeline.__init__
Timeline(ts, source, type, message, p1, p2, p3, p4) ==
    [timestamp |-> ts, event_source |-> source, event_type |-> type, message |-> message,
     param1 |-> p1, param2 |-> p2, param3 |-> p3, param4 |-> p4]

\* USNRecordV2.from_raw of the record at position pos of the journal: the usn of a
\* record is its place in the journal, its timestamp grows with it
from_raw(in, pos) ==
    [timestamp |-> datetime(pos), file_addr |-> in.file[1], file_seq |-> in.file[2],
     par_addr |-> ParRef[1], par_seq |-> ParRef[2], usn |-> pos,
     reason |-> reason_to_hr(in.reason), name |-> in.name, parent_folder |-> "",
     carved |-> FALSE]

\* the directory rows of the File store the lookup can meet
RootDirRow == [meta_addr |-> ParRef[1], meta_seq |-> ParRef[2], is_dir |-> 1,
               name |-> "/", parent_folder |-> ""]
UsersDirRow == [meta_addr |-> ParRef[1], meta_seq |-> ParRef[2], is_dir |-> 1,
                name |-> "Users", parent_folder |-> "/"]

\* sqlite_files_cur: None (open = FALSE) or a cursor on the File store with its
\* directory rows
FileDb(rows) == [open |-> TRUE, rows |-> rows]

\* full_name of a record
usn_full_name(rec) ==
    IF rec.parent_folder = "/" THEN "/" \o rec.name ELSE rec.parent_folder \o "/" \o rec.name

\* a lookup that does not remember a miss
retrieve_parent_folder_miss_uncached(rec, buffer, cur) ==
    LET parent_addr_seq == <<rec.par_addr, rec.par_seq>>
        hits == SelectSeq(cur.rows, LAMBDA p : /\ p.meta_addr = rec.par_addr
                                               /\ p.meta_seq = rec.par_seq
                                               /\ p.is_dir = 1)
        parent == hits[1]
        parent_folder == IF parent.name = "/" /\ parent.parent_folder = ""
                         THEN parent.name
                         ELSE parent.parent_folder \o "/" \o parent.name
    IN  IF parent_addr_seq \in DOMAIN buffer
        THEN [buffer |-> buffer, rec |-> [rec EXCEPT !.parent_folder = buffer[parent_addr_seq]]]
        ELSE IF hits # <<>>
        THEN [buffer |-> DictSet(buffer, parent_addr_seq, parent_folder),
              rec |-> [rec EXCEPT !.parent_folder = parent_folder]]
        ELSE [buffer |-> buffer, rec |-> rec]

\* retrieve_parent_folder: [buffer |-> parent_folder_buffer afterwards, rec |-> the record]
retrieve_parent_folder(rec, buffer, cur) ==
    LET parent_addr_seq == <<rec.par_addr, rec.par_seq>>
        hits == SelectSeq(cur.rows, LAMBDA p : /\ p.meta_addr = rec.par_addr
                                               /\ p.meta_seq = rec.par_seq
                                               /\ p.is_dir = 1)
        parent == hits[1]
        parent_folder == IF parent.name = "/" /\ parent.parent_folder = ""
                         THEN parent.name
                         ELSE parent.parent_folder \o "/" \o parent.name
    IN  IF parent_addr_seq \in DOMAIN buffer
        THEN [buffer |-> buffer, rec |-> [rec EXCEPT !.parent_folder = buffer[parent_addr_seq]]]
        ELSE IF hits # <<>>
        THEN [buffer |-> DictSet(buffer, parent_addr_seq, parent_folder),
              rec |-> [rec EXCEPT !.parent_folder = parent_folder]]
        ELSE [buffer |-> DictSet(buffer, parent_addr_seq, ""), rec |-> rec]

\* file_meta = f'{usnrecord.file_addr}-{usnrecord.file_seq}'
file_meta(rec) == <<rec.file_addr, rec.file_seq>>

\* a state tracking that never sees the CLOSE bit as newly set
new_states_without_close(states, rec) ==
    hr_reason_to_int(rec.reason) \ {USN_REASON_CLOSE}

\* a state tracking that does not mask the reason with the stored state
new_states_unmasked(states, rec) == hr_reason_to_int(rec.reason)

\* new_states: ~states_old[file_meta] & reason, or reason for a file without state
new_states(states, rec) ==
    IF file_meta(rec) \notin DOMAIN states
    THEN hr_reason_to_int(rec.reason)
    ELSE hr_reason_to_int(rec.reason) \ states[file_meta(rec)]

\* states_old[file_meta] = usnrecord.hr_reason_to_int(usnrecord.reason)
store_state(states, rec) == DictSet(states, file_meta(rec), hr_reason_to_int(rec.reason))

\* the Timeline objects of the three event types
TimelineFileCreate(rec) ==
    Timeline(rec.timestamp, "usnjournal", "FILE_CREATE", usn_full_name(rec) \o " created",
             rec.name, rec.parent_folder, "", "")

TimelineFileDelete(rec) ==
    Timeline(rec.timestamp, "usnjournal", "FILE_DELETE", usn_full_name(rec) \o " deleted",
             rec.name, rec.parent_folder, "", "")

\* a FILE_RENAME object with the old and the new name exchanged
TimelineFileRenameSwapped(rec, old) ==
    Timeline(rec.timestamp, "usnjournal", "FILE_RENAME",
             old[3] \o " renamed to " \o usn_full_name(rec),
             old[1], old[2], rec.name, rec.parent_folder)

TimelineFileRename(rec, old) ==
    Timeline(rec.timestamp, "usnjournal", "FILE_RENAME",
             old[3] \o " renamed to " \o usn_full_name(rec),
             rec.name, rec.parent_folder, old[1], old[2])

\* a state tracking that leaves the stashed old name in place after FILE_RENAME
track_states_keep_stash(states, renames, rec) ==
    LET fm == file_meta(rec)
        new == new_states(states, rec)
        states1 == store_state(states, rec)
        ev_create == IF USN_REASON_FILE_CREATE \in new THEN <<TimelineFileCreate(rec)>> ELSE <<>>
        ev_delete == IF USN_REASON_FILE_DELETE \in new THEN <<TimelineFileDelete(rec)>> ELSE <<>>
        renames1 == IF USN_REASON_RENAME_OLD_NAME \in new
                    THEN DictSet(renames, fm, <<rec.name, rec.parent_folder, usn_full_name(rec)>>)
                    ELSE renames
        renamed == USN_REASON_RENAME_NEW_NAME \in new /\ fm \in DOMAIN renames1
        ev_rename == IF renamed THEN <<TimelineFileRename(rec, renames1[fm])>> ELSE <<>>
        renames2 == renames1
        states2 == IF USN_REASON_CLOSE \in new THEN DictDel(states1, fm) ELSE states1
    IN  [states |-> states2, renames |-> renames2, events |-> ev_create \o ev_delete \o ev_rename]

\* the state tracking for the timeline of one record:
\* [states, renames |-> the two dicts afterwards, events |-> the Timeline objects inserted]
track_states(states, renames, rec) ==
    LET fm == file_meta(rec)
        new == new_states(states, rec)
        states1 == store_state(states, rec)
        ev_create == IF USN_REASON_FILE_CREATE \in new THEN <<TimelineFileCreate(rec)>> ELSE <<>>
        ev_delete == IF USN_REASON_FILE_DELETE \in new THEN <<TimelineFileDelete(rec)>> ELSE <<>>
        renames1 == IF USN_REASON_RENAME_OLD_NAME \in new
                    THEN DictSet(renames, fm, <<rec.name, rec.parent_folder, usn_full_name(rec)>>)
                    ELSE renames
        renamed == USN_REASON_RENAME_NEW_NAME \in new /\ fm \in DOMAIN renames1
        ev_rename == IF renamed THEN <<TimelineFileRename(rec, renames1[fm])>> ELSE <<>>
        renames2 == IF renamed THEN DictDel(renames1, fm) ELSE renames1
        states2 == IF USN_REASON_CLOSE \in new THEN DictDel(states1, fm) ELSE states1
    IN  [states |-> states2, renames |-> renames2, events |-> ev_create \o ev_delete \o ev_rename]

RECURSIVE insert_all_first(_, _)
\* an insertion that puts each new row in front of the table
insert_all_first(table, events) ==
    IF events = <<>> THEN table
    ELSE insert_all_first(<<db_create_insert(Head(events), TimelineTypes)>> \o table, Tail(events))

RECURSIVE insert_all(_, _)
\* tl.db_insert(sqlite_timeline_cur) for each Timeline object, in order
insert_all(table, events) ==
    IF events = <<>> THEN table
    ELSE insert_all(db_insert(table, Head(events), TimelineTypes, TimelinePrimaryKey).table,
                    Tail(events))

\* the log of the db_insert calls of the pass, extended by those of record number pos
log_inserts(log, pos, events) ==
    log \o [i \in 1..Len(events) |-> [rec |-> pos, tl |-> events[i]]]

\* the loop body for one valid record: parent folder, USN row, state tracking, timeline
UsnRecordBody(in, carved, lookup) ==
    LET pos == Len(journal) + 1
        raw == [from_raw(in, pos) EXCEPT !.carved = carved]
        found == IF lookup THEN retrieve_parent_folder(raw, parent_folders, filesCur)
                 ELSE [buffer |-> parent_folders, rec |-> raw]
        usnrecord == found.rec
        ins == db_insert(usnStore, usnrecord, USNRecordV2Types, USNRecordV2PrimaryKey)
        tracked == track_states(states_old, renames_old, usnrecord)
    IN  /\ journal' = Append(journal, in)
        /\ parent_folders' = found.buffer
        /\ usnStore' = ins.table
        /\ record_count' = IF ins.ok THEN record_count + 1 ELSE record_count
        /\ states_old' = tracked.states
        /\ renames_old' = tracked.renames
        /\ timeline' = insert_all(timeline, tracked.events)
        /\ emitted' = log_inserts(emitted, pos, tracked.events)
        /\ UNCHANGED <<usnMode, filesCur>>
        /\ UNCHANGED NotUsn

\* prepare_usnjournal: the streaming loop meets the next valid record
PrepareRecord ==
    /\ usnMode = "prepare"
    /\ Len(journal) < MaxRecords
    /\ \E in \in UsnInputs : UsnRecordBody(in, FALSE, TRUE)

\* carve_usnjournal: partition.carve(usn_carver) hands over the next carved record
CarveRecord ==
    /\ usnMode = "carve"
    /\ Len(journal) < MaxRecords
    /\ \E in \in UsnInputs : UsnRecordBody(in, TRUE, filesCur.open)

InitUsnCommon ==
    /\ journal = <<>>
    /\ usnStore = <<>>
    /\ record_count = 0
    /\ parent_folders = EmptyDict
    /\ states_old = EmptyDict
    /\ renames_old = EmptyDict
    /\ timeline = <<>>
    /\ emitted = <<>>

\* prepare_usnjournal: the File store is there (IOError otherwise)
InitUsnPrepare ==
    /\ usnMode = "prepare"
    /\ filesCur \in {FileDb(<<RootDirRow>>), FileDb(<<>>)}
    /\ InitUsnCommon
    /\ OthersIdle("usn")

\* carve_usnjournal: goes on without the File store
InitUsnCarve ==
    /\ usnMode = "carve"
    /\ filesCur \in {NoFileDb, FileDb(<<UsersDirRow>>)}
    /\ InitUsnCommon
    /\ OthersIdle("usn")

\* the reason bitmaps of the records of a rename, with and without CLOSE
RenameMasks ==
    { {USN_REASON_RENAME_OLD_NAME},
      {USN_REASON_RENAME_OLD_NAME, USN_REASON_CLOSE},
      {USN_REASON_RENAME_NEW_NAME},
      {USN_REASON_RENAME_NEW_NAME, USN_REASON_CLOSE},
      {USN_REASON_DATA_EXTEND} }

RenameInputs == [file : FileRefs, reason : RenameMasks, name : Names]

\* prepare_usnjournal: the streaming loop meets the next valid record of a rename
PrepareRenameRecord ==
    /\ usnMode = "prepare"
    /\ Len(journal) < MaxRecords
    /\ \E in \in RenameInputs : UsnRecordBody(in, FALSE, TRUE)

\* the structured pass over a journal of renames
SpecUsnRename == InitUsnPrepare /\ [][PrepareRenameRecord]_vars

\* the structured pass over a journal
SpecUsn == InitUsnPrepare /\ [][PrepareRecord]_vars

\* the carving pass over a partition
SpecUsnCarve == InitUsnCarve /\ [][CarveRecord]_vars

----------------------------------------------------------------------------
(* USN journal: what the passes have done, read off the log                *)

\* the positions of the records of file reference f
FilePositions(f) == {i \in DOMAIN journal : journal[i].file = f}

\* the db_insert calls caused by the records of file reference f, in order
EmittedOf(f) == SelectSeq(emitted, LAMBDA e : journal[e.rec].file = f)

\* the record of f before position p, 0 if there is none
PrevOf(f, p) ==
    IF \E i \in FilePositions(f) : i < p
    THEN CHOOSE i \in FilePositions(f) : i < p /\ \A k \in FilePositions(f) : k < p => k <= i
    ELSE 0

IsEvent(e, f, type) == journal[e.rec].file = f /\ e.tl.event_type = type

----------------------------------------------------------------------------
(* Claims on the USN timeline projection                                   *)

SinceStateCreated(f, upto) ==
    {i \in FilePositions(f) :
        /\ i <= upto
        /\ \A k \in FilePositions(f) :
              (i <= k /\ k <= upto /\ USN_REASON_CLOSE \in journal[k].reason) => k = upto}

\* the bitwise OR of the reasons of a set of records
ReasonsOr(positions) == UNION {journal[i].reason : i \in positions}

\* the bit whose timeline action is the event type
EventBit(type) ==
    IF type = "FILE_CREATE" THEN USN_REASON_FILE_CREATE
    ELSE IF type = "FILE_DELETE" THEN USN_REASON_FILE_DELETE
    ELSE USN_REASON_RENAME_NEW_NAME

\* C2 as stated: the state kept for a file reference is the bitwise OR of all reason
\* bits seen for it since its state was created, and a record emits the event of a
\* bit only if the bit was not among the bits seen for the file before the record.
C2_StateIsCumulative ==
    /\ \A f \in DOMAIN states_old :
          states_old[f] = ReasonsOr(SinceStateCreated(f, Len(journal)))
    /\ \A i \in DOMAIN emitted :
          LET r == emitted[i].rec
              f == journal[r].file
          IN  EventBit(emitted[i].tl.event_type) \notin
                  ReasonsOr(SinceStateCreated(f, r) \ {r})

\* the three records of the rename scenario, for file reference f:
\* FILE_CREATE|CLOSE, RENAME_OLD_NAME|CLOSE, RENAME_NEW_NAME|CLOSE and no other record
RenameScenario(f) ==
    /\ Cardinality(FilePositions(f)) = 3
    /\ LET p3 == PrevOf(f, Len(journal) + 1)
           p2 == PrevOf(f, p3)
           p1 == PrevOf(f, p2)
       IN  /\ journal[p1].reason = {USN_REASON_FILE_CREATE, USN_REASON_CLOSE}
           /\ journal[p2].reason = {USN_REASON_RENAME_OLD_NAME, USN_REASON_CLOSE}
           /\ journal[p3].reason = {USN_REASON_RENAME_NEW_NAME, USN_REASON_CLOSE}

\* the rows of the timeline table written for the records at the given positions
TimelineRowsOf(positions) == SelectSeq(timeline, LAMBDA row : row.timestamp_unix \in positions)

\* C3: for a file reference with exactly the records FILE_CREATE|CLOSE,
\* RENAME_OLD_NAME|CLOSE, RENAME_NEW_NAME|CLOSE, the timeline receives exactly one
\* FILE_CREATE and one FILE_RENAME, the latter with the new name and folder in
\* param1, param2 and the old name and folder in param3, param4, and nothing else.
C3_RenameScenario ==
    \A f \in FileRefs : RenameScenario(f) =>
        LET p3 == PrevOf(f, Len(journal) + 1)
            p2 == PrevOf(f, p3)
            p1 == PrevOf(f, p2)
            ev == EmittedOf(f)
            rows == TimelineRowsOf(FilePositions(f))
        IN  /\ Len(ev) = 2
            /\ ev[1].rec = p1 /\ ev[1].tl.event_type = "FILE_CREATE"
            /\ ev[1].tl.param1 = journal[p1].name
            /\ ev[1].tl.param2 = usnStore[p1].parent_folder
            /\ ev[2].rec = p3 /\ ev[2].tl.event_type = "FILE_RENAME"
            /\ ev[2].tl.param1 = journal[p3].name
            /\ ev[2].tl.param2 = usnStore[p3].parent_folder
            /\ ev[2].tl.param3 = journal[p2].name
            /\ ev[2].tl.param4 = usnStore[p2].parent_folder
            /\ rows = <<db_create_insert(ev[1].tl, TimelineTypes),
                        db_create_insert(ev[2].tl, TimelineTypes)>>

\* C3 witness: the scenario has run for a file that was renamed to another name
C3_Witness ==
    \E f \in FileRefs :
        /\ RenameScenario(f)
        /\ \E i \in DOMAIN emitted :
              IsEvent(emitted[i], f, "FILE_RENAME") /\ emitted[i].tl.param1 # emitted[i].tl.param3

\* C4: timeline events are inserted in the order of the journal records that cause
\* them: the rows of the timeline table are those of the db_insert calls, in the
\* order of the calls, and the calls are in the order of their records.
C4_TimelineInJournalOrder ==
    /\ \A i, j \in DOMAIN emitted : i < j => emitted[i].rec <= emitted[j].rec
    /\ timeline = [i \in DOMAIN emitted |-> db_create_insert(emitted[i].tl, TimelineTypes)]

\* C4 witness: two records of the journal have caused timeline events
C4_Witness ==
    \E i, j \in DOMAIN emitted : emitted[i].rec < emitted[j].rec /\ Len(timeline) >= 2

----------------------------------------------------------------------------
(* Claims on the record store                                              *)

\* does the table hold a row whose object has the primary-key values of obj
HasPrimaryKeyOf(table, i, obj) ==
    \A a \in FilePrimaryKey : db_factory(table[i], FileTypes)[a] = obj[a]

\* the columns of the attributes named in update_attrs
ColumnsOf(update_attrs) ==
    {a \in DOMAIN FileTypes : Selected(update_attrs, a)}
    \cup {UnixCol(a) : a \in {d \in DatetimeAttrs(FileTypes) : Selected(update_attrs, d)}}

\* C5: db_insert of an object whose primary-key tuple is already in the store returns
\* False, does not raise, and leaves the number of rows and every column value of the
\* rows as they were; whatever inserts and updates came before.
C5_DuplicateInsertIgnored ==
    [][(/\ dbCall'.op = "insert"
        /\ \E i \in DOMAIN dbTable : HasPrimaryKeyOf(dbTable, i, dbCall'.obj))
       => (/\ dbCall'.ok = FALSE
           /\ dbCall'.raised = FALSE
           /\ Len(dbTable') = Len(dbTable)
           /\ \A i \in DOMAIN dbTable : \A c \in DOMAIN dbTable[i] :
                 dbTable'[i][c] = dbTable[i][c])]_vars

\* C5 witness: after an update changed a row, an insert with the primary key of a row
\* and other values in the remaining columns was turned down
C5_Witness ==
    /\ dbCall.op = "insert" /\ dbCall.ok = FALSE
    /\ dbUpdates >= 1
    /\ \E i \in DOMAIN dbTable :
          /\ HasPrimaryKeyOf(dbTable, i, dbCall.obj)
          /\ dbTable[i] # db_create_insert(dbCall.obj, FileTypes)

\* C6: db_update with a column subset S changes only columns named in S and only in
\* the row whose primary-key columns equal the primary-key values of the object; the
\* primary-key columns, the other columns of that row, the other rows and the number
\* of rows stay as they were.
C6_UpdateChangesOnlySelected ==
    [][dbCall'.op = "update"
       => (/\ Len(dbTable') = Len(dbTable)
           /\ \A i \in DOMAIN dbTable : \A c \in DOMAIN dbTable[i] :
                 dbTable'[i][c] # dbTable[i][c]
                 => (/\ c \in ColumnsOf(dbCall'.attrs)
                     /\ c \notin PrimaryKeyColumns(FileTypes, FilePrimaryKey)
                     /\ HasPrimaryKeyOf(dbTable, i, dbCall'.obj)))]_vars

\* C6 witness: two rows were inserted and then a db_update with a list of hash
\* columns changed one of them
C6_Witness ==
    /\ dbCall.op = "update" /\ ~dbCall.attrs.none /\ dbCall.attrs.list \subseteq {"md5", "sha1"}
    /\ dbOps = 3 /\ Len(dbTable) = 2 /\ dbUpdates = 1

----------------------------------------------------------------------------
(* Claims on the carve driver                                              *)

\* the integers and the records among the elements the carver yielded
YieldedInts == SelectSeq(cvYielded, LAMBDA e : e.kind = "int")
YieldedRecords == SelectSeq(cvYielded, LAMBDA e : e.kind = "record")

\* carve has ended: returned with the partition read to its end and no more than the
\* carry-over left in the buffer, or, for a partition of no bytes, left by an exception
CarveEnded ==
    \/ /\ bytes_size(cvPartition) = 0
       /\ carvePc = "raised"
    \/ /\ bytes_size(cvPartition) > 0
       /\ carvePc = "done"
       /\ wrapper_tell(cvPartition) = bytes_size(cvPartition)
       /\ Len(current_data) - current_offset <= CarryWindow

\* C7 as stated: for every finite partition and every carver that yields a next
\* offset not below the offset it was invoked with, Partition.carve stops, the
\* partition exhausted and the buffer drained.
C7_TerminatesForEveryCarver == <>(carvePc = "done")

\* C7 amended: for every finite partition and every carver that yields a next offset
\* above the offset it was invoked with, Partition.carve ends: for a partition of at
\* least one byte it stops, the partition exhausted and the buffer drained; for a
\* partition of no bytes it is left by the division by bytes_size of the progress line.
C7_TerminatesWhenAdvancing == (cvStall = NoByte) ~> CarveEnded

\* C7 witness: a carver that always advances has been driven over a partition of more
\* than one chunk, with records found, to the end
C7_Witness ==
    /\ carvePc = "done" /\ cvStall = NoByte
    /\ bytes_size(cvPartition) > chunk_size
    /\ Len(cvStarts) >= 3 /\ cvDelivered # <<>>

\* C8: a record the carver yields is passed to the caller exactly once, in yield
\* order, and never becomes the offset; an integer is never passed to the caller, and
\* the next invocation of the carver starts at exactly the byte the integer
\* designates, also when a chunk is appended to the buffer in between.
C8_ElementsHandledByKind ==
    /\ cvDelivered = YieldedRecords
    /\ \A i \in DOMAIN cvDelivered : cvDelivered[i].kind # "int"
    /\ Len(YieldedInts) = Len(cvStarts)
    /\ \A k \in 1..(Len(cvStarts) - 1) : cvStarts[k + 1] = YieldedInts[k].at
    /\ (carvePc = "scan" /\ YieldedInts # <<>>) =>
          /\ current_offset \in {0, YieldedInts[Len(YieldedInts)].value}
          /\ Len(current_data) - current_offset > CarryWindow
             => current_data[current_offset + 1] = YieldedInts[Len(YieldedInts)].at

\* C8 witness: records were passed on, and an invocation started in a later round
\* than the one in which its offset was yielded
C8_Witness ==
    /\ Len(cvDelivered) >= 2
    /\ carvePc = "scan" /\ YieldedInts # <<>>
    /\ current_offset = 0 /\ YieldedInts[Len(YieldedInts)].value > 0
    /\ Len(current_data) - current_offset > CarryWindow
    /\ current_data[1] >= 0

----------------------------------------------------------------------------
(* Claims on the partition byte stream                                     *)

\* the image offsets of the partition
PartitionRange(w) ==
    (w.sector_offset * w.sector_size)..((w.sector_offset + w.sector_count) * w.sector_size - 1)

\* C9 as stated: after any sequence of seek and read calls 0 <= tell() <= bytes_size,
\* and every read returns only bytes from image offsets inside
\* [sector_offset * sector_size, (sector_offset + sector_count) * sector_size).
C9_StreamStaysInPartition ==
    /\ 0 <= wrapper_tell(ptStream)
    /\ wrapper_tell(ptStream) <= bytes_size(ptStream)
    /\ \A i \in DOMAIN ptData : ptData[i] \in PartitionRange(ptStream)

----------------------------------------------------------------------------
(* Claims on the partition listing                                         *)

\* the entries of the image that carry a BitLocker signature and are not unlocked
LockedEntries ==
    {i \in DOMAIN bdImage.entries :
        /\ bdImage.entries[i].signature
        /\ bdImage.vstype = "single partition" \/ bdImage.entries[i].flags = {"ALLOC"}
        /\ bdImage.vstype = "single partition"
           \/ ~unlock(bdImage.entries[i], bdImage.bde_recovery)}

\* the partitions of the list returned that were built from entry i
ListedOf(i) ==
    SelectSeq(bdListing.result, LAMBDA q : q.slot_num = bdImage.entries[i].slot_num)

\* C10: for a partition with a BitLocker signature whose unlocking fails, building
\* the partition does not raise, and the listing returns the partition, with
\* is_crypted true and without a file system: always for a single partition image,
\* and for an entry of a partition table whenever neither its name nor a file system
\* is filtered away.
C10_LockedPartitionListed ==
    bdCalls > 0 =>
        /\ LockedEntries # {} => bdListing.raised = ""
        /\ \A i \in LockedEntries :
              /\ \A k \in DOMAIN ListedOf(i) :
                    is_crypted(ListedOf(i)[k]) /\ ListedOf(i)[k].filesystem = None
              /\ Len(ListedOf(i)) = 1
                 <=> \/ bdImage.vstype = "single partition"
                     \/ /\ bdArgs.part_name \in {None, ToString(bdImage.entries[i].slot_num)}
                        /\ ~bdArgs.only_with_filesystem
                        /\ bdArgs.filesystem_typeid \in {None, bdImage.entries[i].mbr_type}

\* C10 witness: a wrong recovery password was given, and the listing of all
\* allocated partitions returned the locked partition of the partition table
C10_Witness ==
    /\ bdCalls > 0 /\ bdImage.vstype = "MBR" /\ bdImage.bde_recovery = "wrong"
    /\ bdArgs.part_name = None /\ ~bdArgs.only_with_filesystem /\ bdArgs.filesystem_typeid = None
    /\ \E i \in LockedEntries : Len(ListedOf(i)) = 1 /\ is_crypted(ListedOf(i)[1])

----------------------------------------------------------------------------
(* Claims on the volume shadow copies                                      *)

\* C11: when only enumerations have been made of an NTFS partition whose shadow copy
\* volume opens, every enumeration yields one entry per store of the volume, with
\* the store ids 0..n-1 and the filesystem objects of the first enumeration.
C11_EnumerationsAgree ==
    (vsLookups = 0 /\ vsPartition.type_id = "NTFS" /\ vsPartition.readable) =>
        \A k \in DOMAIN vsEnums :
            /\ Len(vsEnums[k]) = vsPartition.number_of_stores
            /\ \A j \in DOMAIN vsEnums[k] :
                  /\ vsEnums[k][j].store_id = j - 1
                  /\ vsEnums[k][j].filesystem = vsEnums[1][j].filesystem

----------------------------------------------------------------------------
(* Claims on the directory walk                                            *)

\* C12: a walk after the first one over the same file system inserts no row: every
\* entry and every alternate data stream is counted as skipped, and the table is
\* the table the first walk left.
C12_SecondWalkSkipsAll ==
    \A k \in DOMAIN fwWalks :
        k > 1 =>
            /\ fwWalks[k].count_insert = 0
            /\ fwWalks[k].count_skip = fwWalks[1].count_insert + fwWalks[1].count_skip
            /\ fwWalks[k].table = fwWalks[1].table

\* C12 witness: a second walk has ended, over a file system with a stream and a
\* directory two levels below the root, and it skipped entries
C12_Witness ==
    /\ Len(fwWalks) = 2 /\ fwWalks[2].count_skip >= 5
    /\ \E i \in DOMAIN fwTable : fwTable[i].name = "a.txt:Zone.Identifier"
    /\ \E i \in DOMAIN fwTable : fwTable[i].name = "c.txt"

\* C13 as stated: full_name is parent_folder + "/" + name for every File of the walk,
\* the direct children of the root included
C13_FullNameIsJoined ==
    \A i \in DOMAIN fwProduced :
        /\ fwProduced[i].full_name = fwProduced[i].parent_folder \o "/" \o fwProduced[i].name
        /\ fwProduced[i].depth = 0 =>
              fwProduced[i].parent_folder = "" /\ fwProduced[i].name = "/"

\* C13: full_name is parent_folder + "/" + name for every File of the walk but the
\* direct children of the root, whose parent_folder is "/" and whose full_name is
\* "/" + name; the root entry has parent_folder "" and name "/".
C13_FullNameByDepth ==
    \A i \in DOMAIN fwProduced :
        /\ fwProduced[i].depth = 0 =>
              fwProduced[i].parent_folder = "" /\ fwProduced[i].name = "/"
        /\ fwProduced[i].depth = 1 =>
              /\ fwProduced[i].parent_folder = "/"
              /\ fwProduced[i].full_name = "/" \o fwProduced[i].name
        /\ fwProduced[i].depth # 1 =>
              fwProduced[i].full_name
                  = fwProduced[i].parent_folder \o "/" \o fwProduced[i].name

\* C13 witness: the walk produced the root, a child of the root and a file two
\* directories below the root
C13_Witness ==
    /\ \E i \in DOMAIN fwProduced : fwProduced[i].depth = 0
    /\ \E i \in DOMAIN fwProduced :
          fwProduced[i].depth = 1 /\ fwProduced[i].full_name = "/a.txt"
    /\ \E i \in DOMAIN fwProduced :
          fwProduced[i].depth = 3 /\ fwProduced[i].full_name = "/Users/Docs/c.txt"

----------------------------------------------------------------------------
(* Claims on the streaming USN parse                                       *)

\* C14: a record of exactly 60 bytes with valid fields is accepted, and a record of
\* 59 bytes is skipped as an invalid record, without an exception leaving the parse.
C14_Accepts60Skips59 ==
    \A i \in DOMAIN upLog :
        /\ (upLog[i].rec_len = 60 /\ upLog[i].valid) => upLog[i].outcome = "stored"
        /\ upLog[i].rec_len = 59 => upLog[i].outcome = "skipped"

\* C15: a record that passes validation, whose rec_len is not a multiple of 4 and
\* whose padding is not all zero, is discarded (not stored), and the parse goes on.
C15_NonZeroPaddingDiscarded ==
    \A i \in DOMAIN upLog :
        (upLog[i].valid /\ upLog[i].rec_len >= 60 /\ upLog[i].rec_len % 4 # 0
            /\ ~upLog[i].pad_zero) =>
            /\ upLog[i].outcome = "skipped"
            /\ upLog[i].id \notin Range(upStored)
            /\ upPc # "raised"

----------------------------------------------------------------------------
(* Claims on the EVTX carver                                               *)

\* the first signature the search of the carver finds, if any
FirstSignature ==
    CHOOSE o \in index_candidates(evData, evOffset) :
        \A p \in index_candidates(evData, evOffset) : o <= p

EventsYielded == SelectSeq(evYielded, LAMBDA e : e.kind = "event")

\* C16: every record the carver emits comes from a chunk whose signature starts at a
\* multiple of 512; when the first signature found is not at a multiple of 512, the
\* carver emits no record and yields only the next multiple of 512.
C16_OnlyAlignedChunks ==
    evPc = "done" =>
        /\ \A i \in DOMAIN evYielded :
              evYielded[i].kind = "event" =>
                  evYielded[i].chunk % 512 = 0 /\ evYielded[i].chunk \in evData.signatures
        /\ (index_candidates(evData, evOffset) # {} /\ FirstSignature % 512 # 0) =>
              evYielded = <<IntElement((FirstSignature \div 512 + 1) * 512)>>

\* C16 witness: the first signature lies at offset 40, a complete chunk with a
\* parsable record lies at 512, and the carver yielded 512 and nothing else
C16_Witness ==
    /\ evPc = "done" /\ evOffset = 0 /\ evData.signatures = {40, 512}
    /\ evData.byte40_ok /\ evData.magic_ok
    /\ Len(evData.records) > 0 /\ evData.records[1] = [lxml |-> "", dict |-> ""]
    /\ evYielded = <<IntElement(512)>>

\* the carver parsed the chunk at the first signature
ChunkMatched ==
    /\ index_candidates(evData, evOffset) # {} /\ FirstSignature % 512 = 0
    /\ evData.byte40_ok /\ evData.magic_ok

----------------------------------------------------------------------------
(* Prefetch files: prepare_prefetch and carve_prefetch                     *)
(* An SCCA stream is [executable_filename, prefetch_hash, parent_folder,   *)
(* run_times]: run_times holds the unix time of each run-time slot, 0 for  *)
(* a slot whose filetime raises ValueError.                                *)

MaxPrefetchParses == 2
RunTimeSlots == 2

\* json.dumps of a list and json.loads of the text
json_dumps(list) == <<"json", list>>
json_loads(text) == text[2]

RECURSIVE max_of(_)
max_of(list) ==
    IF Len(list) = 1 THEN list[1] ELSE Max(list[1], max_of(Tail(list)))

\* the db_types of PrefetchFile, read off the attributes set by __init__
PrefetchFileTypes ==
    [executable_filename |-> "str", parent_folder |-> "str", prefetch_hash |-> "str",
     run_times |-> "str", last_run |-> "datetime", carved |-> "bool"]

\* PrefetchFile.db_primary_key
PrefetchFilePrimaryKey == {"executable_filename", "prefetch_hash", "last_run"}

\* PrefetchFile.__init__ on an SCCA stream that opens
PrefetchFile(scca, carved) ==
    [executable_filename |-> scca.executable_filename, parent_folder |-> scca.parent_folder,
     prefetch_hash |-> scca.prefetch_hash, run_times |-> json_dumps(scca.run_times),
     last_run |-> datetime(max_of(scca.run_times)), carved |-> carved]

\* PrefetchFile.get_run_times
get_run_times(pf) == json_loads(pf.run_times)

\* the db_types of Executes
ExecutesTypes ==
    [executable_filename |-> "str", parent_folder |-> "str", prefetch_hash |-> "str",
     run_time |-> "datetime", carved |-> "bool"]

\* Executes.db_primary_key
ExecutesPrimaryKey == {"executable_filename", "prefetch_hash", "run_time"}

\* Executes.__init__ for one run-time of a prefetch file
Executes(pf, run_time) ==
    [executable_filename |-> pf.executable_filename, parent_folder |-> pf.parent_folder,
     prefetch_hash |-> pf.prefetch_hash, run_time |-> datetime(run_time), carved |-> pf.carved]

\* PrefetchFile.get_executes: one Executes for each nonzero run-time, in the
\* order of the run-times
RECURSIVE executes_of(_, _)
executes_of(pf, times) ==
    IF times = <<>> THEN <<>>
    ELSE (IF times[1] > 0 THEN <<Executes(pf, times[1])>> ELSE <<>>)
         \o executes_of(pf, Tail(times))

get_executes(pf) == executes_of(pf, get_run_times(pf))

\* the Timeline object prepare_prefetch builds for an Executes
TimelineExecute(execute) ==
    Timeline(execute.run_time, "prefetch", "EXECUTE",
             execute.executable_filename \o " executed",
             execute.executable_filename, execute.parent_folder, "", "")

\* the loop over get_executes() of prepare_prefetch: [executes, timeline] afterwards
RECURSIVE prepare_executes(_, _, _)
prepare_executes(list, executes, events) ==
    IF list = <<>> THEN [executes |-> executes, timeline |-> events]
    ELSE prepare_executes(
            Tail(list),
            db_insert(executes, list[1], ExecutesTypes, ExecutesPrimaryKey).table,
            db_insert(events, TimelineExecute(list[1]), TimelineTypes,
                      TimelinePrimaryKey).table)

\* the loop over get_executes() of carve_prefetch: the Executes store afterwards
RECURSIVE carve_executes(_, _)
carve_executes(list, executes) ==
    IF list = <<>> THEN executes
    ELSE carve_executes(
            Tail(list),
            db_insert(executes, list[1], ExecutesTypes, ExecutesPrimaryKey).table)

\* the SCCA streams that open
SccaStreams ==
    [executable_filename : {"CMD.EXE"}, parent_folder : {"/WINDOWS/SYSTEM32"},
     prefetch_hash : {"1A2B3C4D", "5E6F7A8B"},
     run_times : [1..RunTimeSlots -> 0..2]]

\* prepare_prefetch: one round of the loop over the .pf files, on a file that parses
PreparePrefetchFile ==
    /\ Len(pfParses) < MaxPrefetchParses
    /\ \E scca \in SccaStreams :
          LET pf == PrefetchFile(scca, FALSE)
              done == prepare_executes(get_executes(pf), pfExecutes, pfTimeline)
          IN  /\ pfStore' = db_insert(pfStore, pf, PrefetchFileTypes,
                                      PrefetchFilePrimaryKey).table
              /\ pfExecutes' = done.executes
              /\ pfTimeline' = done.timeline
              /\ pfParses' = Append(pfParses, [how |-> "prepare", scca |-> scca])
    /\ UNCHANGED NotPrefetch

\* carve_prefetch: one round of the loop over the carved prefetch files
CarvePrefetchFile ==
    /\ Len(pfParses) < MaxPrefetchParses
    /\ \E scca \in SccaStreams :
          LET pf == PrefetchFile(scca, TRUE) IN
          /\ pfStore' = db_insert(pfStore, pf, PrefetchFileTypes,
                                  PrefetchFilePrimaryKey).table
          /\ pfExecutes' = carve_executes(get_executes(pf), pfExecutes)
          /\ pfParses' = Append(pfParses, [how |-> "carve", scca |-> scca])
    /\ UNCHANGED pfTimeline
    /\ UNCHANGED NotPrefetch

InitPrefetch ==
    /\ PrefetchIdle
    /\ OthersIdle("prefetch")

NextPrefetch == PreparePrefetchFile \/ CarvePrefetchFile

SpecPrefetch == InitPrefetch /\ [][NextPrefetch]_vars

----------------------------------------------------------------------------
(* Claims on the prefetch files                                            *)

\* the rows of a store with the given values in the given columns
RowsWith(table, values) ==
    {i \in DOMAIN table : \A c \in DOMAIN values : table[i][c] = values[c]}

\* the nonzero run-times of an SCCA stream
NonZeroRunTimes(scca) == {scca.run_times[k] : k \in DOMAIN scca.run_times} \ {0}

\* C18: every successful prefetch parse, structured or carved, leaves one
\* PrefetchFile row and, for each nonzero run-time of the file, one Executes
\* row and one timeline EXECUTE event
C18_ParseLeavesRowsAndEvents ==
    \A i \in DOMAIN pfParses :
        LET scca == pfParses[i].scca IN
        /\ Cardinality(RowsWith(pfStore,
               [executable_filename |-> scca.executable_filename,
                prefetch_hash |-> scca.prefetch_hash,
                last_run_unix |-> max_of(scca.run_times)])) = 1
        /\ \A t \in NonZeroRunTimes(scca) :
              /\ Cardinality(RowsWith(pfExecutes,
                     [executable_filename |-> scca.executable_filename,
                      prefetch_hash |-> scca.prefetch_hash,
                      run_time_unix |-> t])) = 1
              /\ Cardinality(RowsWith(pfTimeline,
                     [timestamp_unix |-> t, event_source |-> "prefetch",
                      event_type |-> "EXECUTE",
                      param1 |-> scca.executable_filename])) = 1

----------------------------------------------------------------------------
(* Timeline store: the inserts of the producers                            *)

MaxTimelineInserts == 3

\* the event_source values of the producers: prepare_usnjournal and
\* carve_usnjournal, prepare_prefetch, prepare_evtx, carve_shortcuts
TimelineProducers == {"usnjournal", "prefetch", "eventlog", "lnkfile"}

\* the Timeline objects the producers build
TimelineObjects ==
    {Timeline(datetime(t), source, "EVENT", message, "a.txt", "/", "", "") :
        t \in 1..2, source \in TimelineProducers, message \in {"", "a.txt created"}}

\* tl.db_insert(sqlite_timeline_cur) of a producer
TimelineInsert ==
    /\ Len(tlCalls) < MaxTimelineInserts
    /\ \E tl \in TimelineObjects :
          LET done == db_insert(tlRows, tl, TimelineTypes, TimelinePrimaryKey) IN
          /\ tlRows' = done.table
          /\ tlCalls' = Append(tlCalls, [obj |-> tl, returned |-> done.ok])
    /\ UNCHANGED NotTimeline

InitTimeline ==
    /\ TimelineIdle
    /\ OthersIdle("timeline")

SpecTimeline == InitTimeline /\ [][TimelineInsert]_vars

----------------------------------------------------------------------------
(* Claims on the timeline store                                            *)

\* two Timeline objects equal in the seven identity fields
SameTimelineIdentity(a, b) ==
    /\ a.timestamp = b.timestamp /\ a.event_source = b.event_source
    /\ a.event_type = b.event_type /\ a.param1 = b.param1 /\ a.param2 = b.param2
    /\ a.param3 = b.param3 /\ a.param4 = b.param4

\* the rows of the store that carry the identity of the object
StoreRowsOf(obj) ==
    {i \in DOMAIN tlRows :
        /\ tlRows[i].timestamp = isoformat(obj.timestamp)
        /\ tlRows[i].event_source = obj.event_source
        /\ tlRows[i].event_type = obj.event_type
        /\ tlRows[i].param1 = obj.param1 /\ tlRows[i].param2 = obj.param2
        /\ tlRows[i].param3 = obj.param3 /\ tlRows[i].param4 = obj.param4}

\* the first insert with the identity of insert j
FirstInsertOf(j) ==
    CHOOSE i \in 1..j :
        /\ SameTimelineIdentity(tlCalls[i].obj, tlCalls[j].obj)
        /\ \A k \in 1..(i - 1) : ~SameTimelineIdentity(tlCalls[k].obj, tlCalls[j].obj)

\* C19: timeline inserts equal in (timestamp, event_source, event_type,
\* param1..param4) leave exactly one row, the row of the first of them, even
\* when their messages differ; every later one returns False and changes nothing
C19_FirstTimelineRowKept ==
    \A j \in DOMAIN tlCalls :
        LET obj == tlCalls[j].obj IN
        /\ Cardinality(StoreRowsOf(obj)) = 1
        /\ \A i \in StoreRowsOf(obj) :
              tlRows[i].message = tlCalls[FirstInsertOf(j)].obj.message
        /\ tlCalls[j].returned = (FirstInsertOf(j) = j)

\* two inserts with one identity and two messages, the later one ignored
C19_Witness ==
    \E i, j \in DOMAIN tlCalls :
        /\ i < j
        /\ SameTimelineIdentity(tlCalls[i].obj, tlCalls[j].obj)
        /\ tlCalls[i].obj.message # tlCalls[j].obj.message
        /\ ~tlCalls[j].returned

----------------------------------------------------------------------------
(* Registry hives: parse_registry, walk_registry and recover_keys          *)
(* A hive is [parent, free, values, broken]: the keys are 1..MaxKeys, key  *)
(* 1 is the root, parent[k] is the key the nk record of k names as parent, *)
(* free holds the keys whose nk record is in a free cell, values is        *)
(* "none", "allocated" or "free" (the cell state of the one value of each  *)
(* key), broken is the key whose path or timestamp does not decode, or 0.  *)

MaxKeys == 4
RootKey == 1

\* the keys of a set in ascending order
RECURSIVE ascending(_)
ascending(S) ==
    IF S = {} THEN <<>>
    ELSE LET k == CHOOSE x \in S : \A y \in S : x <= y
         IN  <<k>> \o ascending(S \ {k})

\* key.subkey_list().keys(): the list of a live key names live keys only
subkey_list(hive, key) ==
    ascending({k \in DOMAIN hive.parent :
                  /\ hive.parent[k] = key
                  /\ (k \notin hive.free \/ key \in hive.free)})

\* RegistryEntry(...) as walk_registry builds it
RegistryEntry(key, is_key, recovered) ==
    [key |-> key, is_key |-> is_key, deleted |-> recovered]

\* one round of the while loop of walk_registry on a key that decodes: the
\* entry of the key, then the entry of its value; a recovering walk keeps
\* only values from free cells
walk_entries(hive, key, recovered) ==
    <<RegistryEntry(key, TRUE, recovered)>> \o
    (IF hive.values = "none" \/ (recovered /\ hive.values # "free") THEN <<>>
     ELSE <<RegistryEntry(key, FALSE, recovered)>>)

\* recover_keys: the free cells with an nk record, in the order of the hbins
free_nk_cells(hive) == ascending(hive.free)

parse_registry_recover_first == <<"recover", "live">>

\* parse_registry: the two for loops, in their order
parse_registry_order == <<"live", "recover">>

\* the loop of parse_registry that follows loop pc
next_loop(pc) ==
    IF pc = "call" THEN parse_registry_order[1]
    ELSE IF pc = parse_registry_order[1] THEN parse_registry_order[2]
    ELSE "done"

tagged(entries, from) == [i \in DOMAIN entries |-> [entry |-> entries[i], from |-> from]]

\* parse_registry: the running loop is exhausted, the next one begins
ParseRegistryLoop ==
    /\ rgPc \in {"call", "live", "recover"}
    /\ rgQueue = <<>> /\ rgCells = <<>>
    /\ rgPc' = next_loop(rgPc)
    /\ rgQueue' = IF rgPc' = "live" THEN <<RootKey>> ELSE <<>>
    /\ rgCells' = IF rgPc' = "recover" THEN free_nk_cells(rgHive) ELSE <<>>
    /\ UNCHANGED <<rgHive, rgEmitted>>
    /\ UNCHANGED NotRegistry

\* walk_registry(hive_reg.first_key(), mount_point): one round of the while loop
WalkLiveKey ==
    /\ rgPc = "live" /\ rgQueue # <<>>
    /\ LET key == Head(rgQueue) IN
       IF rgHive.broken = key
       THEN /\ rgPc' = "raised"
            /\ rgQueue' = <<>>
            /\ UNCHANGED rgEmitted
       ELSE /\ rgEmitted' = rgEmitted \o tagged(walk_entries(rgHive, key, FALSE), "live")
            /\ rgQueue' = Tail(rgQueue) \o subkey_list(rgHive, key)
            /\ UNCHANGED rgPc
    /\ UNCHANGED <<rgHive, rgCells>>
    /\ UNCHANGED NotRegistry

\* recover_keys: the next free cell with an nk record starts a recovering walk
RecoverCell ==
    /\ rgPc = "recover" /\ rgQueue = <<>> /\ rgCells # <<>>
    /\ rgQueue' = <<Head(rgCells)>>
    /\ rgCells' = Tail(rgCells)
    /\ UNCHANGED <<rgHive, rgPc, rgEmitted>>
    /\ UNCHANGED NotRegistry

\* walk_registry(nk, mount_point, recovered=True): one round of the while loop
WalkRecoveredKey ==
    /\ rgPc = "recover" /\ rgQueue # <<>>
    /\ LET key == Head(rgQueue) IN
       IF rgHive.broken = key
       THEN /\ rgQueue' = Tail(rgQueue)
            /\ UNCHANGED rgEmitted
       ELSE /\ rgEmitted' = rgEmitted \o tagged(walk_entries(rgHive, key, TRUE), "recover")
            /\ rgQueue' = Tail(rgQueue) \o subkey_list(rgHive, key)
    /\ UNCHANGED <<rgHive, rgPc, rgCells>>
    /\ UNCHANGED NotRegistry

\* the hives: a parent of a key is an earlier key, the root is live
Hives ==
    {h \in [parent : [1..MaxKeys -> 0..MaxKeys], free : SUBSET (2..MaxKeys),
            values : {"none", "allocated", "free"}, broken : 0..MaxKeys] :
        \A k \in 1..MaxKeys : h.parent[k] < k /\ (k > 1 => h.parent[k] > 0)}

InitRegistry ==
    /\ rgHive \in Hives
    /\ rgPc = "call" /\ rgQueue = <<>> /\ rgCells = <<>> /\ rgEmitted = <<>>
    /\ OthersIdle("registry")

NextRegistry == ParseRegistryLoop \/ WalkLiveKey \/ RecoverCell \/ WalkRecoveredKey

SpecRegistry == InitRegistry /\ [][NextRegistry]_vars

----------------------------------------------------------------------------
(* Claims on the registry hives                                            *)

\* C20: for each hive every entry of the live walk is emitted before any
\* recovered entry (deleted = true): no live entry follows a recovered one,
\* and the recovered entries are the ones flagged deleted
C20_LiveBeforeRecovered ==
    /\ \A i \in DOMAIN rgEmitted :
          rgEmitted[i].entry.deleted = (rgEmitted[i].from = "recover")
    /\ \A i, j \in DOMAIN rgEmitted :
          i < j /\ rgEmitted[i].entry.deleted => rgEmitted[j].entry.deleted

\* a finished parse that emitted entries of both walks
C20_Witness ==
    /\ rgPc = "done"
    /\ \E i, j \in DOMAIN rgEmitted :
          ~rgEmitted[i].entry.deleted /\ rgEmitted[j].entry.deleted

----------------------------------------------------------------------------
(* Command line: main                                                      *)
(* An action ends "ok" or raises an exception; [exc, cause] names the      *)
(* exception and what made the action raise it.                            *)

\* the action blocks of main in their order, each with the exceptions its
\* except clause names ({} for the analyze block, which has no try) and the
\* exceptions the action raises by its own raise statements and unpack calls
MainBlocks ==
    << [arg |-> "list_partitions",
        caught |-> {"AttributeError"},
        raises |-> {"AttributeError"}],
       [arg |-> "extract",
        caught |-> {"AttributeError"},
        raises |-> {"AttributeError", "IOError"}],
       [arg |-> "prepare_files",
        caught |-> {"AttributeError"},
        raises |-> {"AttributeError"}],
       [arg |-> "prepare_vss",
        caught |-> {"AttributeError"},
        raises |-> {"AttributeError"}],
       [arg |-> "hash",
        caught |-> {"AttributeError"},
        raises |-> {"AttributeError", "IOError"}],
       [arg |-> "filetypes",
        caught |-> {"AttributeError"},
        raises |-> {"AttributeError", "IOError"}],
       [arg |-> "prepare_usn",
        caught |-> {"AttributeError", "IOError", "ValueError"},
        raises |-> {"AttributeError", "IOError", "ValueError", "struct.error"}],
       [arg |-> "carve_usn",
        caught |-> {"AttributeError", "IOError"},
        raises |-> {"AttributeError"}],
       [arg |-> "prepare_evtx",
        caught |-> {"AttributeError", "IOError"},
        raises |-> {"AttributeError", "IOError"}],
       [arg |-> "carve_evtx",
        caught |-> {"AttributeError", "IOError"},
        raises |-> {"AttributeError"}],
       [arg |-> "prepare_reg",
        caught |-> {"AttributeError", "IOError"},
        raises |-> {"AttributeError", "IOError"}],
       [arg |-> "analyze",
        caught |-> {},
        raises |-> {"AttributeError", "IOError"}] >>

\* how an action ends: no image gives AttributeError, no file database gives
\* IOError, a broken journal gives ValueError, a record that does not unpack
\* gives struct.error
ActionOutcomes ==
    {[exc |-> "", cause |-> "success"],
     [exc |-> "AttributeError", cause |-> "missing_input"],
     [exc |-> "IOError", cause |-> "missing_input"],
     [exc |-> "ValueError", cause |-> "runtime"],
     [exc |-> "struct.error", cause |-> "runtime"]}

\* the exit code of the interpreter on an exception nobody caught
uncaught_exit == [code |-> 1]

\* the exit code of an action block on an outcome that is not "ok"
block_exit(block, outcome) ==
    IF outcome.exc \in block.caught THEN 2 ELSE uncaught_exit.code

\* parse_arguments(): argparse ends the process with code 2 on a usage error
ParseArguments ==
    /\ mnPc = "args"
    /\ IF mnArgs.usage_ok
       THEN mnPc' = "meta" /\ UNCHANGED <<mnExit, mnCause>>
       ELSE mnPc' = "exited" /\ mnExit' = 2 /\ mnCause' = "usage"
    /\ UNCHANGED <<mnArgs, mnStage>>
    /\ UNCHANGED NotMain

\* the meta_folder(env) block of main
MetaFolder ==
    /\ mnPc = "meta"
    /\ IF mnArgs.meta_ok
       THEN mnPc' = "actions" /\ mnStage' = 1 /\ UNCHANGED <<mnExit, mnCause>>
       ELSE mnPc' = "exited" /\ mnExit' = 1 /\ mnCause' = "meta" /\ UNCHANGED mnStage
    /\ UNCHANGED mnArgs
    /\ UNCHANGED NotMain

\* one action block of main
ActionBlock ==
    /\ mnPc = "actions" /\ mnStage <= Len(MainBlocks)
    /\ LET block == MainBlocks[mnStage] IN
       \E outcome \in {o \in ActionOutcomes : o.exc \in block.raises \cup {""}} :
          IF block.arg \notin mnArgs.actions \/ outcome.exc = ""
          THEN /\ mnStage' = mnStage + 1
               /\ UNCHANGED <<mnPc, mnExit, mnCause>>
          ELSE /\ mnPc' = "exited"
               /\ mnExit' = block_exit(block, outcome)
               /\ mnCause' = outcome.cause
               /\ UNCHANGED mnStage
    /\ UNCHANGED mnArgs
    /\ UNCHANGED NotMain

\* main returns: the process ends with code 0
MainReturn ==
    /\ mnPc = "actions" /\ mnStage > Len(MainBlocks)
    /\ mnPc' = "exited" /\ mnExit' = 0 /\ mnCause' = "success"
    /\ UNCHANGED <<mnArgs, mnStage>>
    /\ UNCHANGED NotMain

InitMain ==
    /\ mnArgs \in [usage_ok : BOOLEAN, meta_ok : BOOLEAN,
                   actions : SUBSET {"list_partitions", "hash", "prepare_usn",
                                     "carve_evtx", "analyze"}]
    /\ mnPc = "args" /\ mnStage = 0 /\ mnExit = 0 /\ mnCause = ""
    /\ OthersIdle("main")

NextMain == ParseArguments \/ MetaFolder \/ ActionBlock \/ MainReturn

SpecMain == InitMain /\ [][NextMain]_vars

----------------------------------------------------------------------------
(* Claims on the command line                                              *)

\* C21: the process exits with 0 when the requested actions succeed, 1 on a
\* meta-folder error, 2 on a usage error or missing required input, 3 when
\* an action fails at run time
C21_ExitCodes ==
    mnPc = "exited" =>
        /\ mnCause = "success" => mnExit = 0
        /\ mnCause = "meta" => mnExit = 1
        /\ mnCause \in {"usage", "missing_input"} => mnExit = 2
        /\ mnCause = "runtime" => mnExit = 3

----------------------------------------------------------------------------
(* Structured event log parse: prepare_evtx and EvtxFile.records           *)
(* A file is [evtx, records]: evtx tells whether EvtxFile() accepts it,    *)
(* records is the list of its records, each "ok", "oserror" (pyevtx cannot *)
(* read the record) or "xmlerror" (xml_to_dict fails on the record's XML).   *)

MaxFileRecords == 2

\* the files the select of prepare_evtx returns
PartitionEvtxFiles == <<"Security.evtx", "System.evtx">>

\* the exception EvtxFile.records raises on a record, "" if it yields an Event:
\* the except clause of the loop body prints and raises again
records_raises(record) ==
    IF record = "ok" THEN ""
    ELSE IF record = "oserror" THEN "OSError"
    ELSE "ValueError"

\* the except clause around the record loop of prepare_evtx
records_loop_caught(exception) == exception = "OSError"

\* prepare_evtx: the next file of the select; EvtxFile() raises IOError on a
\* file that is no event log, after the last file both stores are committed
PrepareEvtxFile ==
    /\ pePc = "files"
    /\ IF peFile = Len(peFiles)
       THEN /\ pePc' = "done"
            /\ peCommitted' = peInserted
            /\ UNCHANGED <<peFile, peRecord>>
       ELSE /\ peFile' = peFile + 1
            /\ peRecord' = 1
            /\ pePc' = IF peFiles[peFile + 1].evtx THEN "records" ELSE "files"
            /\ UNCHANGED peCommitted
    /\ UNCHANGED <<peFiles, peInserted>>
    /\ UNCHANGED NotPrepEvtx

\* prepare_evtx: one round of "for event in evtx_file.records"
PrepareEvtxRecord ==
    /\ pePc = "records"
    /\ LET records == peFiles[peFile].records IN
       IF peRecord > Len(records)
       THEN pePc' = "files" /\ UNCHANGED <<peRecord, peInserted>>
       ELSE LET exception == records_raises(records[peRecord]) IN
            IF exception = ""
            THEN /\ peInserted' = Append(peInserted, <<peFile, peRecord>>)
                 /\ peRecord' = peRecord + 1
                 /\ UNCHANGED pePc
            ELSE /\ pePc' = IF records_loop_caught(exception) THEN "files" ELSE "raised"
                 /\ UNCHANGED <<peRecord, peInserted>>
    /\ UNCHANGED <<peFiles, peFile, peCommitted>>
    /\ UNCHANGED NotPrepEvtx

EvtxFileContents ==
    [evtx : BOOLEAN,
     records : UNION {[1..n -> {"ok", "oserror", "xmlerror"}] : n \in 0..MaxFileRecords}]

InitPrepEvtx ==
    /\ peFiles \in [1..Len(PartitionEvtxFiles) -> EvtxFileContents]
    /\ peFile = 0 /\ peRecord = 0 /\ pePc = "files"
    /\ peInserted = <<>> /\ peCommitted = <<>>
    /\ OthersIdle("prepevtx")

NextPrepEvtx == PrepareEvtxFile \/ PrepareEvtxRecord

SpecPrepEvtx == InitPrepEvtx /\ [][NextPrepEvtx]_vars

----------------------------------------------------------------------------
(* Claims on the structured event log parse                                *)

\* the records of the partition's event logs that parse
ParseableRecords ==
    {fr \in (DOMAIN peFiles) \X (1..MaxFileRecords) :
        /\ peFiles[fr[1]].evtx
        /\ fr[2] \in DOMAIN peFiles[fr[1]].records
        /\ peFiles[fr[1]].records[fr[2]] = "ok"}

\* C22: in a structured parser pass a record that cannot be parsed is skipped
\* locally: every other record of the file and of the remaining files is
\* processed, and the rows gathered in the pass are committed
C22_BadRecordSkippedLocally ==
    pePc \in {"done", "raised"} =>
        \A fr \in ParseableRecords : \E i \in DOMAIN peCommitted : peCommitted[i] = fr

----------------------------------------------------------------------------
(* Claims on the per-file state of the USN timeline projection             *)

\* the last record of file reference f in the pass so far, 0 if there is none
LastOf(f) == PrevOf(f, Len(journal) + 1)

\* the last record of f carried CLOSE
ClosedLast(f) == LastOf(f) # 0 /\ USN_REASON_CLOSE \in journal[LastOf(f)].reason

\* C23: after a record whose reason includes CLOSE no per-file state is kept
\* for its file reference; no stored per-file state contains the CLOSE bit;
\* the next record of that file reference is treated like a first record,
\* every bit of its reason being newly set
C23_CloseDropsState ==
    /\ \A f \in FileRefs : ClosedLast(f) => f \notin DOMAIN states_old
    /\ \A f \in DOMAIN states_old : USN_REASON_CLOSE \notin states_old[f]
    /\ \A in \in UsnInputs :
          ClosedLast(in.file) =>
              new_states(states_old, from_raw(in, Len(journal) + 1)) = in.reason

\* a file reference had a state, and its next record carried CLOSE
C23_Witness ==
    \E f \in FileRefs :
        /\ ClosedLast(f)
        /\ PrevOf(f, LastOf(f)) # 0
        /\ USN_REASON_CLOSE \notin journal[PrevOf(f, LastOf(f))].reason
        /\ f \notin DOMAIN states_old

\* the bits of record r that are newly set: those not in the reason of the
\* preceding record of the file reference, all of them after a CLOSE or at the start
NewlySet(r) ==
    LET p == PrevOf(journal[r].file, r) IN
    IF p = 0 \/ USN_REASON_CLOSE \in journal[p].reason THEN journal[r].reason
    ELSE journal[r].reason \ journal[p].reason

\* the records of the file reference of r, up to r, that stash an old name
StashingUpTo(r) ==
    {q \in FilePositions(journal[r].file) :
        q <= r /\ USN_REASON_RENAME_OLD_NAME \in NewlySet(q)}

\* the FILE_RENAME events in the log
RenameEvents == {i \in DOMAIN emitted : emitted[i].tl.event_type = "FILE_RENAME"}

\* the record whose stashed old name event i carries: the last stashing record
StashOf(i) ==
    CHOOSE q \in StashingUpTo(emitted[i].rec) :
        \A k \in StashingUpTo(emitted[i].rec) : k <= q

----------------------------------------------------------------------------
(* Registry hives: _rebuild_key_path                                       *)
(* The nk cells of a hive are 1..MaxCells, a cell standing for its offset; *)
(* cell 1 carries the root flag. rpHive[k] is the cell that k names as its *)
(* parent, 0 if the parent offset points at nothing that parses; a damaged *)
(* hive may name any cell, so parent chains can be cyclic.                 *)

MaxCells == 4
RootCell == 1

\* NKRecord.has_parent_key(): the root has none, nor has a key whose parent
\* cell does not parse
has_parent_key(hive, p) == p # RootCell /\ hive[p] # 0

\* NKRecord.parent_key()
parent_key(hive, p) == hive[p]

offset_never_seen(offset, seen) == FALSE

\* "if p._offset in offsets"
offset_seen(offset, seen) == offset \in seen

\* reversed(parent_keys)
RECURSIVE reversed(_)
reversed(list) ==
    IF list = <<>> THEN <<>> ELSE Append(reversed(Tail(list)), Head(list))

\* the path built from the gathered cells: normalized against the mount
\* point when the chain ends at the root, under [PARENT_UNKNOWN] for a
\* recovered key, empty otherwise
built_path(keys, recovered) ==
    IF keys[Len(keys)] = RootCell THEN [kind |-> "mount_point", keys |-> reversed(keys)]
    ELSE IF recovered THEN [kind |-> "[PARENT_UNKNOWN]", keys |-> reversed(keys)]
    ELSE [kind |-> "", keys |-> <<>>]

\* _rebuild_key_path: one round of "while p.has_parent_key()"
RebuildWalk ==
    /\ rpPc = "walk"
    /\ has_parent_key(rpHive, rpP)
    /\ LET p == parent_key(rpHive, rpP) IN
       IF offset_seen(p, offsets)
       THEN /\ rpPc' = "done"
            /\ rpP' = p
            /\ rpPath' = built_path(parent_keys, rpKey.recovered)
            /\ UNCHANGED <<parent_keys, offsets>>
       ELSE /\ rpP' = p
            /\ parent_keys' = Append(parent_keys, p)
            /\ offsets' = offsets \cup {p}
            /\ UNCHANGED <<rpPc, rpPath>>
    /\ UNCHANGED <<rpHive, rpKey>>
    /\ UNCHANGED NotRegPath

\* _rebuild_key_path: the walk has reached a key without parent, the path is returned
RebuildReturn ==
    /\ rpPc = "walk"
    /\ ~has_parent_key(rpHive, rpP)
    /\ rpPc' = "done"
    /\ rpPath' = built_path(parent_keys, rpKey.recovered)
    /\ UNCHANGED <<rpHive, rpKey, rpP, parent_keys, offsets>>
    /\ UNCHANGED NotRegPath

InitRegPath ==
    /\ rpHive \in [1..MaxCells -> 0..MaxCells]
    /\ rpKey \in [cell : 1..MaxCells, recovered : BOOLEAN]
    /\ rpPc = "walk"
    /\ rpP = rpKey.cell
    /\ parent_keys = <<rpKey.cell>>
    /\ offsets = {rpKey.cell}
    /\ rpPath = <<>>
    /\ OthersIdle("regpath")

NextRegPath == RebuildWalk \/ RebuildReturn

SpecRegPath == InitRegPath /\ [][NextRegPath]_vars

\* the call runs on: no step of it is postponed for ever
SpecRegPathFair == SpecRegPath /\ WF_vars(NextRegPath)

----------------------------------------------------------------------------
(* Claims on the key path                                                  *)

\* the walk has gathered no cell twice, and offsets holds just the gathered cells
EachOffsetOnce ==
    /\ \A i, j \in DOMAIN parent_keys : parent_keys[i] = parent_keys[j] => i = j
    /\ offsets = {parent_keys[i] : i \in DOMAIN parent_keys}

\* the parent chain of the key runs into a cell it has passed before
CyclicChain ==
    /\ has_parent_key(rpHive, rpP)
    /\ parent_key(rpHive, rpP) \in offsets

\* C25: rebuilding a key's path terminates for every key, also when the
\* parent chain is cyclic: the ancestor walk visits each cell offset at most
\* once and stops at the first offset it has already seen
C25_RebuildTerminates ==
    /\ [](EachOffsetOnce /\ Len(parent_keys) <= MaxCells)
    /\ [][rpPc = "walk" /\ CyclicChain => rpPc' = "done"]_vars
    /\ <>(rpPc = "done")

\* a rebuild that ended on a cycle of three cells
C25_Witness ==
    /\ rpPc = "done"
    /\ CyclicChain
    /\ Len(parent_keys) >= 3

----------------------------------------------------------------------------
(* Registry analysis: the lazy derivations of SYSTEM and SECURITY          *)
(* saReg tells what the registry store holds: current (Select\Current is   *)
(* there), lsa_class (the class names of JD, Skew1, GBG, Data: "ok",       *)
(* "missing", "nothex" or "short"), ek_list (PolEKList: "ok", "missing" or *)
(* "undecodable"), secret_key (PolSecretEncryptionKey: "ok" or "missing"), *)
(* nlkm (the secret NL$KM is there). A derived attribute is None until it  *)
(* is derived; an outcome is [raised, value].                              *)

MaxAccesses == 3

\* SYSTEM._get_current_control_set
get_current_control_set(reg) == IF reg.current THEN "1" ELSE "-1"

\* SYSTEM._get_boot_key: the value stored in _boot_key, or the exception raised
get_boot_key(reg) ==
    IF get_current_control_set(reg) = "-1" THEN [raised |-> "", value |-> "b''"]
    ELSE IF reg.lsa_class = "missing" THEN [raised |-> "AttributeError", value |-> None]
    ELSE IF reg.lsa_class = "nothex" THEN [raised |-> "ValueError", value |-> None]
    ELSE IF reg.lsa_class = "short" THEN [raised |-> "IndexError", value |-> None]
    ELSE [raised |-> "", value |-> "boot_key"]

\* SECURITY._sha256_aes_decrypt_secret: with the right key the secret, with
\* another key whatever the decrypted length field makes of it
sha256_aes_decrypt_secret(key_ok) ==
    IF key_ok THEN {[raised |-> "", value |-> "secret"]}
    ELSE {[raised |-> "", value |-> "garbage"], [raised |-> "struct.error", value |-> None]}

\* SECURITY._get_lsa_keys: the outcomes for the boot key the analyzer was built with
get_lsa_keys(reg, boot_key) ==
    IF reg.ek_list = "missing"
    THEN IF reg.secret_key = "missing"
         THEN {[raised |-> "AttributeError", value |-> None]}
         ELSE {[raised |-> "", value |-> IF boot_key = "boot_key" THEN "legacy" ELSE "garbage"]}
    ELSE IF reg.ek_list = "undecodable"
    THEN {[raised |-> "ValueError", value |-> None]}
    ELSE sha256_aes_decrypt_secret(boot_key = "boot_key")

\* SECURITY._get_lsa_secrets once the lsa keys are there: the dict of the secrets,
\* written as text
get_lsa_secrets(reg, lsa_keys) ==
    IF reg.nlkm /\ lsa_keys \in {"secret", "legacy"} THEN "{NL$KM}" ELSE "{}"

\* the access to a derived attribute went through
logged(what, raised) == Append(saLog, [what |-> what, raised |-> raised])

\* the analysis goes on as long as no access has raised
Analysing == Len(saLog) < MaxAccesses /\ \A i \in DOMAIN saLog : saLog[i].raised = ""

\* SYSTEM.boot_key
AccessBootKey ==
    /\ Analysing
    /\ LET got == IF saBootKey = None THEN get_boot_key(saReg)
                  ELSE [raised |-> "", value |-> saBootKey] IN
       /\ saBootKey' = got.value
       /\ saLog' = logged("boot_key", got.raised)
    /\ UNCHANGED <<saReg, saLsaKeys, saLsaSecrets, saDomainCache>>
    /\ UNCHANGED NotSec

\* SECURITY.lsa_keys, on an analyzer built with the boot key
AccessLsaKeys ==
    /\ Analysing
    /\ saBootKey # None
    /\ \E got \in (IF saLsaKeys = None THEN get_lsa_keys(saReg, saBootKey)
                   ELSE {[raised |-> "", value |-> saLsaKeys]}) :
          /\ saLsaKeys' = got.value
          /\ saLog' = logged("lsa_keys", got.raised)
    /\ UNCHANGED <<saReg, saBootKey, saLsaSecrets, saDomainCache>>
    /\ UNCHANGED NotSec

\* SECURITY.get_lsa_secret('NL$KM'): _get_lsa_secrets sets the dict, then reads lsa_keys
AccessLsaSecret ==
    /\ Analysing
    /\ saBootKey # None
    /\ IF saLsaSecrets # None
       THEN /\ saLog' = logged("lsa_secret", "")
            /\ UNCHANGED <<saLsaKeys, saLsaSecrets>>
       ELSE \E got \in (IF saLsaKeys = None THEN get_lsa_keys(saReg, saBootKey)
                        ELSE {[raised |-> "", value |-> saLsaKeys]}) :
               /\ saLsaKeys' = got.value
               /\ saLsaSecrets' = IF got.raised = "" THEN get_lsa_secrets(saReg, got.value)
                                  ELSE "{}"
               /\ saLog' = logged("lsa_secret", got.raised)
    /\ UNCHANGED <<saReg, saBootKey, saDomainCache>>
    /\ UNCHANGED NotSec

\* SECURITY.domain_cache: without the NL$KM secret the cache stays None
AccessDomainCache ==
    /\ Analysing
    /\ saBootKey # None
    /\ saLsaSecrets # None
    /\ saDomainCache' = IF saLsaSecrets = "{NL$KM}" THEN "DomainCache" ELSE None
    /\ saLog' = logged("domain_cache", "")
    /\ UNCHANGED <<saReg, saBootKey, saLsaKeys, saLsaSecrets>>
    /\ UNCHANGED NotSec

InitSec ==
    /\ saReg \in [current : BOOLEAN, lsa_class : {"ok", "missing", "nothex", "short"},
                  ek_list : {"ok", "missing", "undecodable"},
                  secret_key : {"ok", "missing"}, nlkm : BOOLEAN]
    /\ saBootKey = None /\ saLsaKeys = None /\ saLsaSecrets = None
    /\ saDomainCache = None /\ saLog = <<>>
    /\ OthersIdle("sec")

NextSec == AccessBootKey \/ AccessLsaKeys \/ AccessLsaSecret \/ AccessDomainCache

SpecSec == InitSec /\ [][NextSec]_vars

----------------------------------------------------------------------------
(* Claims on the registry analysis                                         *)

\* C26: when the registry data a security derivation needs is missing or
\* cannot be decoded, the access to the derived value never raises; it
\* yields an empty or "unknown" result and the analysis continues
C26_DerivationNeverRaises ==
    \A i \in DOMAIN saLog : saLog[i].raised = ""

----------------------------------------------------------------------------
(* USN journal: the parent-folder lookups of one pass                      *)
(* The records of the pass differ in their parent reference; the File      *)
(* store holds directory rows for some references, a plain file row for    *)
(* another and nothing for the rest.                                       *)

MaxParentLookups == 4

\* (par_addr, par_seq) of the records of the pass
ParentRefs == {<<5, 5>>, <<6, 1>>, <<7, 1>>}

\* rows of the File store: a directory below the root, and a plain file
DocsDirRow == [meta_addr |-> 6, meta_seq |-> 1, is_dir |-> 1,
               name |-> "Docs", parent_folder |-> "/"]
PlainFileRow == [meta_addr |-> 7, meta_seq |-> 1, is_dir |-> 0,
                 name |-> "a.txt", parent_folder |-> "/"]

ParentStores ==
    { FileDb(<<>>), FileDb(<<RootDirRow>>), FileDb(<<RootDirRow, DocsDirRow>>),
      FileDb(<<DocsDirRow, PlainFileRow>>) }

\* the File.db_select calls of retrieve_parent_folder: one for a key that is
\* not in the buffer, none otherwise
parent_queries(rec, buffer) ==
    IF <<rec.par_addr, rec.par_seq>> \in DOMAIN buffer THEN <<>>
    ELSE <<(<<rec.par_addr, rec.par_seq>>)>>

\* the directories of the File store with this reference
DirsOf(cur, key) ==
    SelectSeq(cur.rows, LAMBDA p : p.meta_addr = key[1] /\ p.meta_seq = key[2] /\ p.is_dir = 1)

\* the loop body as far as the parent folder goes: the next valid record is
\* built and looks up its parent folder
RetrieveParent ==
    /\ plCur.open
    /\ Len(plRecords) < MaxParentLookups
    /\ \E par \in ParentRefs, name \in Names :
          LET pos == Len(plRecords) + 1
              raw == [from_raw([file |-> <<5, 1>>, reason |-> {USN_REASON_FILE_CREATE},
                                name |-> name], pos)
                        EXCEPT !.par_addr = par[1], !.par_seq = par[2]]
              found == retrieve_parent_folder(raw, plBuffer, plCur)
          IN  /\ plBuffer' = found.buffer
              /\ plRecords' = Append(plRecords, found.rec)
              /\ plQueries' = plQueries \o parent_queries(raw, plBuffer)
    /\ UNCHANGED plCur
    /\ UNCHANGED NotParent

InitParent ==
    /\ plCur \in ParentStores
    /\ plBuffer = EmptyDict /\ plRecords = <<>> /\ plQueries = <<>>
    /\ OthersIdle("parent")

\* the parent-folder lookups of one pass
SpecParent == InitParent /\ [][RetrieveParent]_vars

KeyOf(rec) == <<rec.par_addr, rec.par_seq>>

\* C27: after a lookup for a parent reference without a directory in the File
\* store the cache maps the reference to "", every record with that reference
\* has parent_folder "", the File store was asked once for it, and a cached
\* reference keeps its folder for the rest of the pass
C27_MissCachedAsEmpty ==
    /\ [](\A i \in DOMAIN plRecords :
             DirsOf(plCur, KeyOf(plRecords[i])) = <<>> =>
                /\ KeyOf(plRecords[i]) \in DOMAIN plBuffer
                /\ plBuffer[KeyOf(plRecords[i])] = ""
                /\ plRecords[i].parent_folder = ""
                /\ Len(SelectSeq(plQueries, LAMBDA k : k = KeyOf(plRecords[i]))) = 1)
    /\ [][\A k \in DOMAIN plBuffer : k \in DOMAIN plBuffer' /\ plBuffer'[k] = plBuffer[k]]_vars

\* two records with the same parent reference, which has no directory in a File
\* store that holds other rows, and one query
C27_Witness ==
    /\ Len(plRecords) >= 3
    /\ plCur.rows # <<>>
    /\ \E i, j \in DOMAIN plRecords :
          /\ i < j
          /\ KeyOf(plRecords[i]) = KeyOf(plRecords[j])
          /\ DirsOf(plCur, KeyOf(plRecords[j])) = <<>>
          /\ plRecords[j].parent_folder = ""
          /\ Len(SelectSeq(plQueries, LAMBDA k : k = KeyOf(plRecords[j]))) = 1

----------------------------------------------------------------------------
(* Carving pass: Partition.carve with the shipped carvers                  *)
(* Sizes are the sizes of the code.  The buffer is described by the        *)
(* partition position of its first byte and its length, the partition by   *)
(* its size and the positions at which the carver's signature starts; the  *)
(* zero bytes of the final padding hold no signature.  A carver is handed  *)
(* [len, signatures, valid, parses]: the offsets of the signatures in the  *)
(* buffer, whether a candidate passes the checks after the alignment, and  *)
(* whether it parses.  A carver yields its elements up to the first        *)
(* integer, where the driver leaves it.                                    *)

MaxScanChunks == 2

\* chunk_size = 1024 * 1024 * chunk_size_mb
CARVE_CHUNK_SIZE == 52428800

\* while current_data_len - current_offset > 0xffffff
CARVE_MIN_REST == 16777215

USN_CARVER_OFFSET_STEP == 8
PREFETCH_CARVER_OFFSET_STEP == 512
LNK_CARVER_OFFSET_STEP == 512

\* the bytes at the end of the buffer that the searches leave out: -512 and
\* -5*1024*1024
USN_SEARCH_TAIL == 512
PREFETCH_SEARCH_TAIL == 5242880
LNK_SEARCH_TAIL == 5242880

\* current_data.index(signature, current_offset, -tail): the offsets of the
\* matches, which lie as a whole before the excluded tail
index_of(data, sig_len, offset, tail) ==
    {o \in data.signatures : o >= offset /\ o + sig_len <= data.len - tail}

\* the match index() returns
first_of(found) == CHOOSE o \in found : \A p \in found : o <= p

\* a rounding that stays on the multiple below the candidate
same_multiple(candidate_offset, step) == candidate_offset - (candidate_offset % step)

\* candidate_offset - candidate_offset % step + step
next_multiple(candidate_offset, step) ==
    candidate_offset - (candidate_offset % step) + step

RecordElement(offset) == [kind |-> "record", at |-> offset]

\* usn_carver(current_data, current_offset); from_raw raises AttributeError only
usn_carver(data, offset) ==
    LET found == index_of(data, 6, offset, USN_SEARCH_TAIL)
        candidate_offset == first_of(found)
        record_offset == candidate_offset - 2
    IN  IF found = {}
        THEN <<IntElement(data.len - USN_SEARCH_TAIL + USN_CARVER_OFFSET_STEP)>>
        ELSE IF candidate_offset % 8 # 2
        THEN <<IntElement(next_multiple(candidate_offset, USN_CARVER_OFFSET_STEP))>>
        ELSE IF ~data.valid
        THEN <<IntElement(record_offset + USN_CARVER_OFFSET_STEP)>>
        ELSE IF data.parses
        THEN <<RecordElement(record_offset),
               IntElement(record_offset + USN_CARVER_OFFSET_STEP)>>
        ELSE <<IntElement(record_offset + USN_CARVER_OFFSET_STEP)>>

\* prefetch_carver(current_data, current_offset); a blob that pyscca does not open
\* raises OSError in each of the two loops
prefetch_carver(data, offset) ==
    LET found == index_of(data, 3, offset, PREFETCH_SEARCH_TAIL)
        candidate_offset == first_of(found)
    IN  IF found = {}
        THEN <<IntElement(data.len - PREFETCH_SEARCH_TAIL + PREFETCH_CARVER_OFFSET_STEP)>>
        ELSE IF candidate_offset % PREFETCH_CARVER_OFFSET_STEP # 0
        THEN <<IntElement(next_multiple(candidate_offset, PREFETCH_CARVER_OFFSET_STEP))>>
        ELSE IF ~data.valid
        THEN <<IntElement(candidate_offset + PREFETCH_CARVER_OFFSET_STEP)>>
        ELSE IF data.parses
        THEN <<RecordElement(candidate_offset),
               IntElement(candidate_offset + PREFETCH_CARVER_OFFSET_STEP)>>
        ELSE <<IntElement(candidate_offset + PREFETCH_CARVER_OFFSET_STEP)>>

\* lnk_carver(current_data, current_offset); a blob that LnkParser does not read
\* raises struct.error or ValueError
lnk_carver(data, offset) ==
    LET found == index_of(data, 20, offset, LNK_SEARCH_TAIL)
        candidate_offset == first_of(found)
    IN  IF found = {}
        THEN <<IntElement(data.len - LNK_SEARCH_TAIL + LNK_CARVER_OFFSET_STEP)>>
        ELSE IF candidate_offset % LNK_CARVER_OFFSET_STEP # 0
        THEN <<IntElement(next_multiple(candidate_offset, LNK_CARVER_OFFSET_STEP))>>
        ELSE IF ~data.valid
        THEN <<IntElement(candidate_offset + LNK_CARVER_OFFSET_STEP)>>
        ELSE IF data.parses
        THEN <<RecordElement(candidate_offset),
               IntElement(candidate_offset + LNK_CARVER_OFFSET_STEP)>>
        ELSE <<IntElement(candidate_offset + LNK_CARVER_OFFSET_STEP)>>

\* the chunk evtx_carver is handed: one record, which parses or fails in lxml()
EvtxChunkOf(data) ==
    [len |-> data.len, signatures |-> data.signatures, byte40_ok |-> data.valid,
     magic_ok |-> data.valid,
     records |-> IF data.parses THEN <<[lxml |-> "", dict |-> ""]>>
                 ELSE <<[lxml |-> "OverrunBufferException", dict |-> ""]>>]

\* carve_func(current_data, current_offset) for the carver of the pass
carve_func(kind, data, offset) ==
    CASE kind = "usn" -> usn_carver(data, offset)
      [] kind = "prefetch" -> prefetch_carver(data, offset)
      [] kind = "lnk" -> lnk_carver(data, offset)
      [] kind = "evtx" -> evtx_carver(EvtxChunkOf(data), offset).yielded

\* what the searches of the carvers look for: the length of the signature, its
\* place in the stride, the stride and the excluded tail
Carvers ==
    [usn |-> [sig_len |-> 6, phase |-> 2, step |-> USN_CARVER_OFFSET_STEP,
              tail |-> USN_SEARCH_TAIL],
     evtx |-> [sig_len |-> 8, phase |-> 0, step |-> EVTX_CARVER_OFFSET_STEP,
               tail |-> EVTX_SEARCH_TAIL],
     prefetch |-> [sig_len |-> 3, phase |-> 0, step |-> PREFETCH_CARVER_OFFSET_STEP,
                   tail |-> PREFETCH_SEARCH_TAIL],
     lnk |-> [sig_len |-> 20, phase |-> 0, step |-> LNK_CARVER_OFFSET_STEP,
              tail |-> LNK_SEARCH_TAIL]]

\* a signature position on the stride of the carver
StrideAligned(kind, position) == position % Carvers[kind].step = Carvers[kind].phase

\* the path an invocation takes
PathOf(kind, data, offset) ==
    LET c == Carvers[kind]
        found == index_of(data, c.sig_len, offset, c.tail)
    IN  IF found = {} THEN "none"
        ELSE IF ~StrideAligned(kind, first_of(found)) THEN "misaligned"
        ELSE IF ~data.valid THEN "invalid"
        ELSE IF ~data.parses THEN "failed"
        ELSE "parsed"

\* the signature offset whose candidate the invocation checks, if any
ExaminedBy(kind, data, offset) ==
    LET c == Carvers[kind]
        found == index_of(data, c.sig_len, offset, c.tail)
    IN  IF found # {} /\ StrideAligned(kind, first_of(found)) THEN {first_of(found)} ELSE {}

\* the buffer offset of the record an element carries
ElementAt(element) == IF element.kind = "event" THEN element.chunk ELSE element.at

\* current_data as the carver sees it
ScanBuffer ==
    [len |-> scLen,
     signatures |-> {p - scStart : p \in {q \in scSigs : q >= scStart /\ q < scStart + scLen}},
     valid |-> scQuality # "invalid", parses |-> scQuality = "ok"]

\* the outer loop: read a chunk, pad after the end, carry the rest of the buffer over
ScanReadChunk ==
    /\ scPc = "read"
    /\ LET got == Min(CARVE_CHUNK_SIZE, scSize - scRead)
           kept == Max(scLen - scOffset, 0)
       IN  /\ scRead' = scRead + got
           /\ scLastRound' = (got = 0)
           /\ scStart' = scStart + (scLen - kept)
           /\ scLen' = kept + (IF got = 0 THEN CARVE_CHUNK_SIZE ELSE got)
           /\ scOffset' = 0
    /\ scPc' = "scan"
    /\ UNCHANGED <<scKind, scSize, scSigs, scQuality, scLast, scPaths, scExamined, scFound>>
    /\ UNCHANGED NotScan

\* the inner loop: one invocation of the carver, records to the caller, the
\* integer to current_offset
ScanInvoke ==
    /\ scPc = "scan"
    /\ scLen - scOffset > CARVE_MIN_REST
    /\ LET elements == carve_func(scKind, ScanBuffer, scOffset)
           element == elements[Len(elements)]
       IN  /\ scOffset' = element.value
           /\ scLast' = [offset |-> scOffset, len |-> scLen, next |-> element.value,
                         path |-> PathOf(scKind, ScanBuffer, scOffset)]
           /\ scPaths' = scPaths \cup {PathOf(scKind, ScanBuffer, scOffset)}
           /\ scExamined' = scExamined \cup
                 {scStart + o : o \in ExaminedBy(scKind, ScanBuffer, scOffset)}
           /\ scFound' = scFound \cup
                 {scStart + ElementAt(elements[i]) + Carvers[scKind].phase :
                     i \in {j \in DOMAIN elements : elements[j].kind # "int"}}
    /\ UNCHANGED <<scKind, scSize, scSigs, scQuality, scRead, scStart, scLen, scLastRound,
                   scPc>>
    /\ UNCHANGED NotScan

\* the inner loop is left: the next round, or the end after the last one
ScanRoundEnd ==
    /\ scPc = "scan"
    /\ scLen - scOffset <= CARVE_MIN_REST
    /\ scPc' = IF scLastRound THEN "done" ELSE "read"
    /\ UNCHANGED <<scKind, scSize, scSigs, scQuality, scRead, scStart, scLen, scOffset,
                   scLastRound, scLast, scPaths, scExamined, scFound>>
    /\ UNCHANGED NotScan

\* the signature positions of the model: at the start of the partition, off the
\* stride, around the start of the excluded tail of the first buffer and at the
\* start of the second chunk
ScanPositions(kind) ==
    LET c == Carvers[kind]
        tail_start == CARVE_CHUNK_SIZE - c.tail
    IN  {c.phase, 44, tail_start - c.step + c.phase, tail_start + c.phase,
         tail_start + c.step + c.phase, CARVE_CHUNK_SIZE + c.phase}

InitScan ==
    /\ scKind \in {"usn", "evtx", "prefetch", "lnk"}
    /\ scSize \in {k * CARVE_CHUNK_SIZE : k \in 1..MaxScanChunks}
    /\ scSigs \in SUBSET {p \in ScanPositions(scKind) : p + Carvers[scKind].sig_len <= scSize}
    /\ scQuality \in {"invalid", "unparsable", "ok"}
    /\ scRead = 0 /\ scStart = 0 /\ scLen = 0 /\ scOffset = 0 /\ scLastRound = FALSE
    /\ scPc = "read" /\ scLast = <<>> /\ scPaths = {} /\ scExamined = {} /\ scFound = {}
    /\ OthersIdle("scan")

NextScan == ScanReadChunk \/ ScanInvoke \/ ScanRoundEnd

\* a carving pass of one partition with one of the shipped carvers
SpecScan == InitScan /\ [][NextScan]_vars

----------------------------------------------------------------------------
(* Claims on the carving pass                                              *)

C29_NoAlignedSignatureSkipped ==
    \A p \in scSigs :
        (StrideAligned(scKind, p) /\ p < scStart + scOffset) => p \in scExamined

----------------------------------------------------------------------------
(* Journal pass: prepare_usnjournal from the search for the first record   *)
(* to the end of the streaming loop, in cli/actions/prepare/usnjournal.py  *)
(* ("prepare") and in cli/actions/usnjournal.py ("actions").  The journal  *)
(* is a sequence of 4-byte cells as in the streaming parse, its last cell  *)
(* may be cut short.  UsnReadSize stands for the 65536 bytes of a read,    *)
(* UsnProbeSize for the 512 bytes of a probe.  A cell that is not zero     *)
(* begins with a byte that is not zero.                                    *)

MaxJournalItems == 2
UsnReadSize == 64
UsnProbeSize == 16

\* for i in range(20)
USN_HALVINGS == 20

RECURSIVE pow2(_)
pow2(n) == IF n = 0 THEN 1 ELSE 2 * pow2(n - 1)

\* the bytes journal.read(size) returns at position tell: how many
file_read(tell, size) == Min(size, ujSize - tell)

\* the cells with a byte in [from, to) that is not zero
DataCells(from, to) ==
    {i \in DOMAIN ujJournal :
        ~ujJournal[i].zero /\ 4 * (i - 1) < Min(to, ujSize) /\ 4 * i > from}

\* the position of the first byte of journal.read(...).lstrip(b'\0')
first_data(from, to) ==
    Max(from, 4 * ((CHOOSE i \in DataCells(from, to) : \A j \in DataCells(from, to) : i <= j) - 1))

\* a search that never gives up
fine_search_never_ends(variant, offset, tell) == FALSE

\* "if offset == journal.tell(): break", which only one of the modules has
fine_search_ends(variant, offset, tell) == variant = "prepare" /\ offset = tell

\* step 1: one of the 20 halvings
UjHalve ==
    /\ ujPc = "halve"
    /\ ujRound < USN_HALVINGS
    /\ LET chunksize == ujSize \div pow2(ujRound + 1)
           got == file_read(ujOffset, UsnProbeSize)
       IN  /\ ujChunk' = chunksize
           /\ ujTell' = ujOffset + got
           /\ ujOffset' = IF DataCells(ujOffset, ujOffset + got) # {}
                          THEN ujOffset - (chunksize \div 2)
                          ELSE ujOffset + (chunksize \div 2)
    /\ ujRound' = ujRound + 1
    /\ UNCHANGED <<ujVariant, ujJournal, ujSize, ujPc, ujBufStart, ujBufLen, ujBufOff,
                   ujStored, ujLast>>
    /\ UNCHANGED NotHead

\* step 2: the seek before the fine search
UjFineSeek ==
    /\ ujPc = "halve"
    /\ ujRound = USN_HALVINGS
    /\ ujTell' = IF ujOffset > ujChunk THEN ujOffset - ujChunk ELSE 0
    /\ ujPc' = "fine"
    /\ UNCHANGED <<ujVariant, ujJournal, ujSize, ujRound, ujOffset, ujChunk, ujBufStart,
                   ujBufLen, ujBufOff, ujStored, ujLast>>
    /\ UNCHANGED NotHead

\* step 2: one round of the fine search
UjFineRead ==
    /\ ujPc = "fine"
    /\ LET got == file_read(ujTell, UsnReadSize)
           tell == ujTell + got
       IN  IF DataCells(ujTell, tell) # {}
           THEN /\ ujTell' = Max(first_data(ujTell, tell) - 8, 0)
                /\ ujPc' = "align"
                /\ UNCHANGED ujOffset
           ELSE IF fine_search_ends(ujVariant, ujOffset, tell)
           THEN /\ ujTell' = tell
                /\ ujPc' = "align"
                /\ UNCHANGED ujOffset
           ELSE /\ ujTell' = tell
                /\ ujOffset' = IF ujVariant = "prepare" THEN tell ELSE ujOffset
                /\ UNCHANGED ujPc
    /\ UNCHANGED <<ujVariant, ujJournal, ujSize, ujRound, ujChunk, ujBufStart, ujBufLen,
                   ujBufOff, ujStored, ujLast>>
    /\ UNCHANGED NotHead

\* the alignment to 8 bytes and the first read of the buffer
UjAlign ==
    /\ ujPc = "align"
    /\ LET cur_pos == ujTell
           skipped == IF cur_pos % 8 # 0 THEN file_read(cur_pos, 8 - (cur_pos % 8)) ELSE 0
           start == cur_pos + skipped
           got == file_read(start, UsnReadSize)
       IN  IF DataCells(cur_pos, start) # {}
           THEN \* raise ValueError('non-zero bytes while aligning')
                /\ ujTell' = start
                /\ ujPc' = "raised"
                /\ UNCHANGED <<ujBufStart, ujBufLen, ujBufOff>>
           ELSE /\ ujTell' = start + got
                /\ ujBufStart' = start
                /\ ujBufLen' = got
                /\ ujBufOff' = 0
                /\ ujPc' = "stream"
    /\ UNCHANGED <<ujVariant, ujJournal, ujSize, ujRound, ujOffset, ujChunk, ujStored,
                   ujLast>>
    /\ UNCHANGED NotHead

\* one round of the streaming loop
UjStream ==
    /\ ujPc = "stream"
    /\ LET refill == ujBufLen - ujBufOff < UsnReadSize
           got == IF refill THEN file_read(ujTell, UsnReadSize) ELSE 0
           kept == Max(ujBufLen - ujBufOff, 0)
           len == IF refill THEN kept + got ELSE ujBufLen
           start == IF refill THEN ujTell - kept ELSE ujBufStart
           off == IF refill THEN 0 ELSE ujBufOff
           cell == ujJournal[(start + off) \div 4 + 1]
           raw_len == Min(cell.rec_len, len - off)
           outcome == from_raw_outcome(cell, raw_len)
           padded == cell.rec_len % 4 # 0
           pad_seen == padded /\ off + cell.rec_len < len /\ ~cell.pad_zero
           step == IF cell.zero \/ cell.version # "2.0" THEN 4
                   ELSE IF outcome # "ok" \/ pad_seen THEN 4
                   ELSE cell.rec_len + (IF padded THEN 4 - (cell.rec_len % 4) ELSE 0)
           raised == /\ ~cell.zero /\ cell.version = "2.0"
                     /\ \/ outcome # "ok" /\ ~parse_caught(outcome)
                        \/ outcome = "ok" /\ pad_seen /\ ~parse_caught("ValueError")
           stored == ~cell.zero /\ cell.version = "2.0" /\ outcome = "ok" /\ ~pad_seen
       IN  /\ ujTell' = ujTell + got
           /\ ujBufStart' = start
           /\ ujBufLen' = len
           /\ IF len < 8
              THEN \* break: the pass commits and ends
                   /\ ujPc' = "done"
                   /\ ujBufOff' = off
                   /\ ujLast' = [consumed |-> 0, ended |-> TRUE]
                   /\ UNCHANGED ujStored
              ELSE IF raised
              THEN /\ ujPc' = "raised"
                   /\ ujBufOff' = off
                   /\ ujLast' = [consumed |-> 0, ended |-> TRUE]
                   /\ UNCHANGED ujStored
              ELSE /\ ujBufOff' = off + step
                   /\ ujLast' = [consumed |-> step, ended |-> FALSE]
                   /\ ujStored' = IF stored THEN Append(ujStored, cell.id) ELSE ujStored
                   /\ UNCHANGED ujPc
    /\ UNCHANGED <<ujVariant, ujJournal, ujSize, ujRound, ujOffset, ujChunk>>
    /\ UNCHANGED NotHead

\* the items of the journals of the model
HeadItemKinds == {"zero", "r59", "r60", "r62pad", "r64bad"}

\* a run of zero cells that is longer than a read
ZeroRun(n) == [i \in 1..n |-> ZeroCell]

InitHead ==
    /\ ujVariant \in {"prepare", "actions"}
    /\ \E n \in 1..MaxJournalItems, zeros \in {0, 20}, cut \in {0, 5} :
          \E kinds \in [1..n -> HeadItemKinds] :
             LET cells == ZeroRun(zeros) \o UsnJournalOf(kinds, 1) IN
             /\ ujJournal = SubSeq(cells, 1, Max(Len(cells) - cut, 1))
             /\ ujSize = 4 * Len(ujJournal) - (IF cut > 0 THEN 2 ELSE 0)
    /\ ujPc = "halve" /\ ujRound = 0 /\ ujOffset = ujSize \div 2 /\ ujChunk = 0 /\ ujTell = 0
    /\ ujBufStart = 0 /\ ujBufLen = 0 /\ ujBufOff = 0 /\ ujStored = <<>> /\ ujLast = <<>>
    /\ OthersIdle("head")

NextHead == UjHalve \/ UjFineSeek \/ UjFineRead \/ UjAlign \/ UjStream

SpecHead == InitHead /\ [][NextHead]_vars

\* the pass goes on while it can
SpecHeadFair == SpecHead /\ WF_vars(NextHead)

----------------------------------------------------------------------------
(* Claims on the journal pass                                              *)

\* C30: the structured parse of a finite journal ends, also on a journal of
\* zero bytes and on one that ends in a cut record: the search for the first
\* record and the streaming loop come to an end, and each round of the
\* streaming loop consumes at least 4 bytes or ends the loop
C30_JournalParseTerminates ==
    /\ <>(ujPc \in {"done", "raised"})
    /\ [](ujLast # <<>> => (ujLast.consumed >= 4 \/ ujLast.ended))

====
